---- MODULE Spec2Model ----
(***************************************************************************)
(* Model of the form generator server (src/server.js): the                 *)
(* POST /api/forms/generate handler, the upload extraction pipeline,       *)
(* the LLM draft generator with its validation, the rule-based draft       *)
(* builder and the network retry wrapper.                                  *)
(*                                                                         *)
(* Strings of the program are sequences of characters; a character is a    *)
(* TLA+ string naming it ("a", "?", "\n", or a romanised name such as      *)
(* "ce" for a CJK ideograph).  The empty string is <<>>.  A literal the    *)
(* code only concatenates or compares whole ("pdf_q_", a library title)    *)
(* is one element.                                                         *)
(***************************************************************************)
EXTENDS Integers, Sequences, FiniteSets, TLC

VARIABLES
    retry,      \* the frame of withNetworkRetry: task, position, attempt i, caught error, waitMs
    netlog,     \* history: every invocation of the wrapped operation, its outcome, every sleep
    netFaults,  \* environment: the errors the wrapped operation can fail with
    file,       \* req.file: the upload (name, MIME type, what its bytes decode and parse to)
    xpc,        \* position in extractSourceFromUploadedFile / extractTextWithPdfOcr
    x,          \* locals of extractSourceFromUploadedFile (fields, questions, parseIssue, ...)
    ocr,        \* locals of extractTextWithPdfOcr (page index, chunks, pending completion)
    parsers,    \* the PDFParse handles: text-layer parser and OCR parser
    xlog,       \* history: start and end of the text-layer attempt and of OCR, destroy calls
    source,     \* the ExtractionResult returned
    env,        \* configuration: OPENAI_API_KEY set, OPENAI_MODEL, proxies, what the LLM service answers
    llm,        \* the frame of generateFormDraftWithLLM: position, candidates, tried, responseData, result
    llmlog,     \* history: every model attempt with its response and its outcome
    req,        \* the request: body.prompt
    pc,         \* position in the POST /api/forms/generate handler
    draft,      \* the draft buildFormDraft returned
    res,        \* the response sent
    formId      \* const formId = createResp.data.formId of the handler, "" before that line

retryVars == <<retry, netlog, netFaults>>
extractVars == <<file, xpc, x, ocr, parsers, xlog, source>>
llmVars == <<env, llm, llmlog>>
handlerVars == <<req, pc, draft, res, formId>>
vars == <<retry, netlog, netFaults, file, xpc, x, ocr, parsers, xlog, source,
          env, llm, llmlog, req, pc, draft, res, formId>>

(***************************************************************************)
(* Generic helpers                                                         *)
(***************************************************************************)
Min(a, b) == IF a < b THEN a ELSE b
Max(a, b) == IF a > b THEN a ELSE b
Range(s) == {s[k] : k \in 1..Len(s)}

(***************************************************************************)
(* Strings: JavaScript string operations on sequences of characters        *)
(***************************************************************************)
LOWER == << "a", "b", "c", "d", "e", "f", "g", "h", "i", "j", "k", "l", "m",
            "n", "o", "p", "q", "r", "s", "t", "u", "v", "w", "x", "y", "z" >>
UPPER == << "A", "B", "C", "D", "E", "F", "G", "H", "I", "J", "K", "L", "M",
            "N", "O", "P", "Q", "R", "S", "T", "U", "V", "W", "X", "Y", "Z" >>
DIGITS == << "0", "1", "2", "3", "4", "5", "6", "7", "8", "9" >>
LETTER == Range(LOWER) \cup Range(UPPER)
DIGIT == Range(DIGITS)

\* CJK ideographs (U+4E00..U+9FA5) by romanised name, one element per character;
\* a digit tells homophones apart (xing = U+59D3, xing2 = U+6027).
CJK == { "xing", "ming", "zi", "cheng", "you", "xiang", "jian", "shou", "ji", "dian",
         "hua", "lian", "xi", "fang", "shi", "gong", "si", "dan", "wei", "zhi",
         "gang", "jue", "se", "bu", "men", "xing2", "bie", "yin", "shi2", "ji2",
         "kou", "can", "wu", "pian", "hao", "xian", "shang", "xia", "can2", "hui",
         "yu", "ce", "yan", "shi3", "kao", "cha", "zhi2", "shi4", "wen", "da",
         "ti", "dao", "san", "si2", "wu2", "liu", "qi", "ba", "jiu", "shi5",
         "da2", "mo", "xing3", "ti2", "shi6", "ci", "zhong", "guo", "hua2",
         "bao", "huo", "dong", "sai", "jiang", "zuo", "juan", "diao", "yan2", "cha2",
         "zhao", "pin", "ying", "jian2", "li", "yu2", "yue", "ding", "pai", "qi2",
         "shen", "qing", "deng", "ji3", "fan", "kui", "man", "yi", "du", "ping", "jia",
         "wo", "yao", "xiang2", "bang", "xu", "shou2", "ji4", "bao2", "han", "kuo",
         "duan", "xin", "xi2", "he", "ji5", "bei", "zhu", "shuo", "ming2", "miao",
         "shu", "jian3", "yi2", "ma", "biao" }

\* JavaScript \s among the characters of the model.
WHITESPACE == {" ", "\t", "\n", "\r", "U+00A0", "U+FEFF"}

\* U+0000 and U+FFFD (what a PDF with a missing encoding map decodes to), U+FEFF.
NUL == "U+0000"
GARBAGE == "U+FFFD"
BOM == "U+FEFF"

\* Fullwidth and CJK punctuation by name.
FW_COMMA == "fw,"
FW_STOP == "fw."
FW_BANG == "fw!"
FW_QUESTION == "fw?"
FW_DUN == "fw-dun"
FW_SEMI == "fw;"
FW_COLON == "fw:"
FW_LPAREN == "fw("
FW_RPAREN == "fw)"
BULLET == "U+2022"

Take(s, n) == SubSeq(s, 1, Min(n, Len(s)))
Drop(s, n) == SubSeq(s, n + 1, Len(s))
Rep(c, n) == [k \in 1..n |-> c]
MapSeq(s, F(_)) == [k \in 1..Len(s) |-> F(s[k])]

RECURSIVE Flatten(_)
Flatten(ss) ==
    IF ss = <<>> THEN <<>>
    ELSE IF Len(ss) = 1 THEN ss[1]
    ELSE LET h == Len(ss) \div 2
         IN  Flatten(SubSeq(ss, 1, h)) \o Flatten(SubSeq(ss, h + 1, Len(ss)))

\* Array.prototype.join with a one-character separator.
RECURSIVE Join(_, _)
Join(ss, sep) ==
    IF ss = <<>> THEN <<>>
    ELSE IF Len(ss) = 1 THEN ss[1]
    ELSE ss[1] \o <<sep>> \o Join(Tail(ss), sep)

StartsWith(s, p) == Len(s) >= Len(p) /\ SubSeq(s, 1, Len(p)) = p
EndsWith(s, p) == Len(s) >= Len(p) /\ SubSeq(s, Len(s) - Len(p) + 1, Len(s)) = p
Includes(s, p) == \E k \in 1..(Len(s) - Len(p) + 1) : SubSeq(s, k, k + Len(p) - 1) = p
IncludesAny(s, ps) == \E p \in ps : Includes(s, p)

IndexIn(c, alphabet) == CHOOSE k \in 1..Len(alphabet) : alphabet[k] = c
toLowerCaseChar(c) == IF c \in Range(UPPER) THEN LOWER[IndexIn(c, UPPER)] ELSE c
toUpperCaseChar(c) == IF c \in Range(LOWER) THEN UPPER[IndexIn(c, LOWER)] ELSE c
toLowerCase(s) == MapSeq(s, toLowerCaseChar)

\* String.prototype.trim
LeadingCount(s, set) ==
    IF \A k \in 1..Len(s) : s[k] \in set THEN Len(s)
    ELSE (CHOOSE k \in 1..Len(s) : s[k] \notin set /\ \A j \in 1..(k - 1) : s[j] \in set) - 1
TrailingCount(s, set) ==
    IF \A k \in 1..Len(s) : s[k] \in set THEN Len(s)
    ELSE Len(s) - (CHOOSE k \in 1..Len(s) : s[k] \notin set /\ \A j \in (k + 1)..Len(s) : s[j] \in set)
StripLeading(s, set) == Drop(s, LeadingCount(s, set))
StripTrailing(s, set) == Take(s, Len(s) - TrailingCount(s, set))
trim(s) == StripTrailing(StripLeading(s, WHITESPACE), WHITESPACE)

\* String.prototype.split on a one-character separator class: the pieces
\* between consecutive separators.
split(s, seps) ==
    LET at == {k \in 1..Len(s) : s[k] \in seps}
        nth(j) == IF j = 0 THEN 0
                  ELSE IF j > Cardinality(at) THEN Len(s) + 1
                  ELSE CHOOSE k \in at : Cardinality({p \in at : p <= k}) = j
    IN  [j \in 1..(Cardinality(at) + 1) |-> SubSeq(s, nth(j - 1) + 1, nth(j) - 1)]

\* split(/\r?\n/): a carriage return right before the line feed belongs to the separator.
splitLines(s) ==
    LET parts == split(s, {"\n"})
    IN  [k \in 1..Len(parts) |->
            IF k < Len(parts) /\ EndsWith(parts[k], <<"\r">>)
              THEN Take(parts[k], Len(parts[k]) - 1) ELSE parts[k]]

\* replace(/[set]/g, to)
replaceChars(s, set, to) == [k \in 1..Len(s) |-> IF s[k] \in set THEN to ELSE s[k]]

\* replace(/[set]{min,}/g, to): every maximal run of at least min characters of set.
replaceRuns(s, set, min, to) ==
    LET runStart(k) == s[k] \in set /\ (k = 1 \/ s[k - 1] \notin set)
        runLength(k) == LeadingCount(Drop(s, k - 1), set)
        startOf(k) == CHOOSE j \in 1..k : runStart(j) /\ \A i \in j..k : s[i] \in set
        piece(k) == IF s[k] \notin set THEN <<s[k]>>
                    ELSE IF runLength(startOf(k)) < min THEN <<s[k]>>
                    ELSE IF runStart(k) THEN to
                    ELSE <<>>
    IN  Flatten([k \in 1..Len(s) |-> piece(k)])

\* Number to decimal string, for the numbers of the model (0..99).
numberToString(n) ==
    IF n < 10 THEN <<DIGITS[n + 1]>> ELSE <<DIGITS[(n \div 10) + 1], DIGITS[(n % 10) + 1]>>

(***************************************************************************)
(* Questions, the field library and the readability score                  *)
(***************************************************************************)
\* A question object.  A property the code leaves out (key, options,
\* correctAnswer, points) has the value its readers coerce it to: <<>> for
\* `q.key &&`, `q.options || []` and `q.correctAnswer`, 0 for Number(q.points) > 0.
Question(key, title, type, required, options, correctAnswer, points) ==
    [key |-> key, title |-> title, type |-> type, required |-> required,
     options |-> options, correctAnswer |-> correctAnswer, points |-> points]

PLEASE_FILL == "(qing tian xie)"

FIELD_LIBRARY ==
    << [key |-> <<"name">>, title |-> <<"title:name">>, type |-> "text", required |-> TRUE,
        keywords |-> << <<"xing", "ming">>, <<"ming", "zi">>, <<"ming", "cheng">> >>,
        options |-> <<>>],
       [key |-> <<"email">>, title |-> <<"title:email">>, type |-> "text", required |-> TRUE,
        keywords |-> << <<"you", "xiang">>, <<"you", "jian">>, <<"e", "m", "a", "i", "l">> >>,
        options |-> <<>>],
       [key |-> <<"phone">>, title |-> <<"title:phone">>, type |-> "text", required |-> FALSE,
        keywords |-> << <<"shou", "ji">>, <<"dian", "hua">>, <<"lian", "xi", "fang", "shi">> >>,
        options |-> <<>>],
       [key |-> <<"company">>, title |-> <<"title:company">>, type |-> "text", required |-> FALSE,
        keywords |-> << <<"gong", "si">>, <<"dan", "wei">> >>,
        options |-> <<>>],
       [key |-> <<"role">>, title |-> <<"title:role">>, type |-> "text", required |-> FALSE,
        keywords |-> << <<"zhi", "wei">>, <<"gang", "wei">>, <<"jue", "se">>, <<"bu", "men">> >>,
        options |-> <<>>],
       [key |-> <<"gender">>, title |-> <<"title:gender">>, type |-> "choice", required |-> FALSE,
        keywords |-> << <<"xing2", "bie">> >>,
        options |-> << <<"male">>, <<"female">>, <<"undisclosed">>, <<"other">> >>],
       [key |-> <<"diet">>, title |-> <<"title:diet">>, type |-> "choice", required |-> FALSE,
        keywords |-> << <<"yin", "shi2">>, <<"ji2", "kou">>, <<"can", "shi2">>,
                        <<"shi2", "wu", "pian", "hao">> >>,
        options |-> << <<"none">>, <<"vegetarian">>, <<"halal">>, <<"other">> >>],
       [key |-> <<"joinMode">>, title |-> <<"title:joinMode">>, type |-> "choice",
        required |-> FALSE,
        keywords |-> << <<"xian", "shang">>, <<"xian", "xia">>, <<"can2", "hui", "fang", "shi">>,
                        <<"can2", "yu", "fang", "shi">> >>,
        options |-> << <<"offline">>, <<"online">> >>] >>

\* { ...field }: the question a library entry is copied to (the copy also
\* carries `keywords`, which nothing reads).
FieldQuestion(f) == Question(f.key, f.title, f.type, f.required, f.options, <<>>, 0)

LibraryField(key) == FIELD_LIBRARY[CHOOSE k \in 1..Len(FIELD_LIBRARY) : FIELD_LIBRARY[k].key = key]

fieldMatches(f, text) ==
    \E k \in 1..Len(f.keywords) : Includes(toLowerCase(text), toLowerCase(f.keywords[k]))

\* FIELD_LIBRARY.find(...): the index of the first matching entry, 0 for undefined.
findFieldByText(text) ==
    IF \E k \in 1..Len(FIELD_LIBRARY) : fieldMatches(FIELD_LIBRARY[k], text)
      THEN CHOOSE k \in 1..Len(FIELD_LIBRARY) :
              /\ fieldMatches(FIELD_LIBRARY[k], text)
              /\ \A j \in 1..(k - 1) : ~fieldMatches(FIELD_LIBRARY[j], text)
      ELSE 0

READABLE_PUNCTUATION ==
    { FW_COMMA, FW_STOP, FW_BANG, FW_QUESTION, FW_DUN, FW_SEMI, FW_COLON, FW_LPAREN, FW_RPAREN,
      "(", ")", ",", ".", "!", "?", ";", ":", "'", "\"", "_", "%", "@", "#", "&", "/", "+", "-" }

READABLE == CJK \cup LETTER \cup DIGIT \cup READABLE_PUNCTUATION

\* getTextReadabilityScore: the score as the fraction num / den, den > 0.
getTextReadabilityScore(text) ==
    LET normalized == SelectSeq(text, LAMBDA c : c \notin WHITESPACE)
        readableChars == SelectSeq(normalized, LAMBDA c : c \in READABLE)
    IN  IF Len(normalized) = 0 THEN [num |-> 0, den |-> 1]
        ELSE [num |-> Len(readableChars), den |-> Len(normalized)]

\* score < pct / 100 and score >= pct / 100, in integers.
ScoreBelow(score, pct) == score.num * 100 < pct * score.den
ScoreAtLeast(score, pct) == ~ScoreBelow(score, pct)

PARAGRAPH_HINTS ==
    { <<"bei", "zhu">>, <<"shuo", "ming2">>, <<"miao", "shu">>, <<"jian3", "yi2">>,
      <<"c", "o", "m", "m", "e", "n", "t">>, <<"n", "o", "t", "e">>,
      <<"d", "e", "s", "c", "r", "i", "p", "t", "i", "o", "n">>,
      <<"f", "e", "e", "d", "b", "a", "c", "k">> }

isLikelyParagraphField(fieldName) == IncludesAny(toLowerCase(fieldName), PARAGRAPH_HINTS)

\* \w and the CJK range: what the key of a synthesized field keeps.
WORD_CHAR == LETTER \cup DIGIT \cup {"_"}

\* prettifyFieldName: runs of _ and - to a space, runs of whitespace to a
\* space, the first character of every word upper-cased.
prettifyFieldName(name) ==
    LET spaced == replaceRuns(replaceRuns(trim(name), {"_", "-"}, 1, <<" ">>),
                              WHITESPACE, 1, <<" ">>)
    IN  [k \in 1..Len(spaced) |->
            IF spaced[k] \in WORD_CHAR /\ (k = 1 \/ spaced[k - 1] \notin WORD_CHAR)
              THEN toUpperCaseChar(spaced[k]) ELSE spaced[k]]

NoQuestion == Question(<<>>, <<>>, "null", FALSE, <<>>, <<>>, 0)

\* buildQuestionFromField: NoQuestion stands for null.
buildQuestionFromField(fieldName) ==
    LET normalized == trim(fieldName)
        known == findFieldByText(normalized)
    IN  IF normalized = <<>> THEN NoQuestion
        ELSE IF known # 0 THEN FieldQuestion(FIELD_LIBRARY[known])
        ELSE Question(
               <<"field_">> \o replaceRuns(toLowerCase(normalized),
                                            {c \in Range(toLowerCase(normalized)) :
                                                c \notin WORD_CHAR \cup CJK}, 1, <<"_">>),
               prettifyFieldName(normalized) \o <<PLEASE_FILL>>,
               IF isLikelyParagraphField(normalized) THEN "paragraph" ELSE "text",
               FALSE, <<>>, <<>>, 0)

\* fields.map(buildQuestionFromField).filter(Boolean)
questionsFromFields(fields) ==
    SelectSeq(MapSeq(fields, buildQuestionFromField), LAMBDA q : q # NoQuestion)

(***************************************************************************)
(* Structured and plain-text extraction                                    *)
(***************************************************************************)
nonBlank(lines) == SelectSeq(lines, LAMBDA l : trim(l) # <<>>)

stripQuotes(h) ==
    LET a == IF StartsWith(h, <<"\"">>) THEN Tail(h) ELSE h
    IN  IF EndsWith(a, <<"\"">>) THEN Take(a, Len(a) - 1) ELSE a

parseCsvHeader(text) ==
    LET lines == nonBlank(splitLines(text))
        firstLine == IF lines = <<>> THEN <<>>
                     ELSE trim(IF StartsWith(lines[1], <<BOM>>) THEN Tail(lines[1]) ELSE lines[1])
    IN  IF firstLine = <<>> THEN <<>>
        ELSE SelectSeq(MapSeq(split(firstLine, {",", "\t", ";"}),
                              LAMBDA h : trim(stripQuotes(h))),
                       LAMBDA h : h # <<>>)

\* What JSON.parse gives for a buffer: [t |-> "invalid"] when it throws,
\* otherwise the value: t is "null", "number", "string", "object" (keys) or
\* "array" (items, each such a value).
JsonInvalid == [t |-> "invalid", keys |-> <<>>, items |-> <<>>]
JsonScalar(t) == [t |-> t, keys |-> <<>>, items |-> <<>>]
JsonObject(keys) == [t |-> "object", keys |-> keys, items |-> <<>>]
JsonArray(items) == [t |-> "array", keys |-> <<>>, items |-> items]

\* Object.keys: the keys of an object, the indices of an array.
ObjectKeys(value) ==
    IF value.t = "array" THEN [k \in 1..Len(value.items) |-> numberToString(k - 1)]
    ELSE value.keys

parseJsonKeys(value) ==
    IF value.t = "invalid" THEN <<>>
    ELSE IF value.t = "array" /\ Len(value.items) > 0
            /\ value.items[1].t \in {"object", "array"}
      THEN ObjectKeys(value.items[1])
    ELSE IF value.t \in {"object", "array"} THEN ObjectKeys(value)
    ELSE <<>>

LIST_PREFIX == {"-", "*", ".", ")"} \cup DIGIT \cup WHITESPACE

extractFieldsFromText(text) ==
    LET lines == Take(nonBlank(MapSeq(splitLines(text), trim)), 30)
        short == SelectSeq(lines, LAMBDA line : Len(line) <= 40)
        bare == MapSeq(short, LAMBDA line : trim(StripLeading(line, LIST_PREFIX)))
    IN  SelectSeq(bare, LAMBDA line : Len(line) >= 2)

\* /[?fw?]$|ma$/ and /[?fw?]$|ma$|^q[\d:fw:.\s]/i
endsAsQuestion(line) == line # <<>> /\ line[Len(line)] \in {"?", FW_QUESTION, "ma"}
looksLikeQuestion(line) ==
    \/ endsAsQuestion(line)
    \/ /\ Len(line) >= 2
       /\ line[1] \in {"q", "Q"}
       /\ line[2] \in DIGIT \cup {":", FW_COLON, "."} \cup WHITESPACE

\* replace(/^[-*bullet]\s*/, '').replace(/^\d+[).dun]\s*/, '').trim()
stripListMarker(line) ==
    LET a == IF line # <<>> /\ line[1] \in {"-", "*", BULLET}
               THEN StripLeading(Tail(line), WHITESPACE) ELSE line
        d == LeadingCount(a, DIGIT)
        b == IF d > 0 /\ Len(a) > d /\ a[d + 1] \in {")", ".", FW_DUN}
               THEN StripLeading(Drop(a, d + 1), WHITESPACE) ELSE a
    IN  trim(b)

\* /^https?:\/\//i
isUrl(s) ==
    LET l == toLowerCase(s)
    IN  \/ StartsWith(l, <<"h", "t", "t", "p", ":", "/", "/">>)
        \/ StartsWith(l, <<"h", "t", "t", "p", "s", ":", "/", "/">>)

normalizePdfText(text) ==
    trim(replaceRuns(replaceRuns(replaceChars(replaceChars(text, {NUL}, " "), {"\r"}, "\n"),
                                 {" ", "\t"}, 1, <<" ">>),
                     {"\n"}, 3, <<"\n", "\n">>))

explicitQuestionsOf(lines) ==
    LET picked == Take(SelectSeq(SelectSeq(lines, LAMBDA line : Len(line) >= 4 /\ Len(line) <= 120),
                                 looksLikeQuestion), 15)
    IN  [idx \in 1..Len(picked) |->
            Question(<<"pdf_q_">> \o numberToString(idx),
                     IF endsAsQuestion(picked[idx]) THEN picked[idx]
                     ELSE picked[idx] \o <<PLEASE_FILL>>,
                     IF Len(picked[idx]) > 36 THEN "paragraph" ELSE "text",
                     FALSE, <<>>, <<>>, 0)]

listedLinesOf(lines) ==
    Take(SelectSeq(MapSeq(lines, stripListMarker),
                   LAMBDA line : Len(line) >= 2 /\ Len(line) <= 60), 12)

sentenceCandidatesOf(normalized) ==
    Take(SelectSeq(SelectSeq(MapSeq(split(normalized, {FW_STOP, ".", "!", FW_BANG, FW_QUESTION, "\n"}),
                                    trim),
                             LAMBDA sentence : Len(sentence) >= 8 /\ Len(sentence) <= 72),
                   LAMBDA sentence : ~isUrl(sentence)), 8)

\* Faulty variant: the list items are added to the interrogative lines.
extractQuestionsMerged(text) ==
    LET normalized == normalizePdfText(text)
        lines == SelectSeq(nonBlank(MapSeq(split(normalized, {"\n"}), trim)),
                           LAMBDA line : ScoreAtLeast(getTextReadabilityScore(line), 50))
        listedLines == listedLinesOf(lines)
    IN  IF Len(normalized) < 20 THEN <<>>
        ELSE explicitQuestionsOf(lines)
               \o (IF Len(listedLines) >= 3
                     THEN [idx \in 1..Len(listedLines) |->
                             Question(<<"pdf_list_">> \o numberToString(idx),
                                      listedLines[idx] \o <<PLEASE_FILL>>, "text",
                                      FALSE, <<>>, <<>>, 0)]
                     ELSE <<>>)

extractQuestionsFromPdfText(text) ==
    LET normalized == normalizePdfText(text)
        lines == SelectSeq(nonBlank(MapSeq(split(normalized, {"\n"}), trim)),
                           LAMBDA line : ScoreAtLeast(getTextReadabilityScore(line), 50))
        explicitQuestions == explicitQuestionsOf(lines)
        listedLines == listedLinesOf(lines)
        sentenceCandidates == sentenceCandidatesOf(normalized)
    IN  IF Len(normalized) < 20 THEN <<>>
        ELSE IF explicitQuestions # <<>> THEN explicitQuestions
        ELSE IF Len(listedLines) >= 3
          THEN [idx \in 1..Len(listedLines) |->
                  Question(<<"pdf_list_">> \o numberToString(idx),
                           listedLines[idx] \o <<PLEASE_FILL>>,
                           IF isLikelyParagraphField(listedLines[idx]) THEN "paragraph" ELSE "text",
                           FALSE, <<>>, <<>>, 0)]
        ELSE IF sentenceCandidates # <<>>
          THEN [idx \in 1..Len(sentenceCandidates) |->
                  Question(<<"pdf_sentence_">> \o numberToString(idx),
                           <<"(qing gen ju wen dang nei rong shuo ming):">> \o sentenceCandidates[idx],
                           "paragraph", FALSE, <<>>, <<>>, 0)]
        ELSE Take(questionsFromFields(extractFieldsFromText(normalized)), 15)

(***************************************************************************)
(* extractSourceFromUploadedFile and extractTextWithPdfOcr                 *)
(***************************************************************************)
SOURCE_TEXT_MAX == 12000
MAX_SOURCE_QUESTIONS == 15
PDF_TEXT_MIN_READABILITY == 42
PDF_OCR_MIN_READABILITY == 35

\* What a call of the PDF or OCR library gives: a text, or an exception.
Gives(text) == [ok |-> TRUE, text |-> text]
Throws == [ok |-> FALSE, text |-> <<>>]

\* A rendered page: data is FALSE for an empty image buffer; chi and eng are
\* what recognize(image, 'chi_sim+eng') and recognize(image, 'eng') give.
Page(data, chi, eng) == [data |-> data, chi |-> chi, eng |-> eng]

\* What the bytes of a PDF give: getText(), and getScreenshot({first: 2}).
PdfDoc(getText, shotOk, pages) == [getText |-> getText, shotOk |-> shotOk, pages |-> pages]
NoPdf == PdfDoc(Throws, FALSE, <<>>)

\* req.file: originalname, the tokens of mimetype, buffer.length > 0, and what
\* the buffer is as utf8 text, as JSON and as a PDF.
File(name, mime, hasBytes, text, json, pdf) ==
    [present |-> TRUE, originalname |-> name, mimetype |-> mime, hasBytes |-> hasBytes,
     text |-> text, json |-> json, pdf |-> pdf]
NoFile ==
    [present |-> FALSE, originalname |-> <<>>, mimetype |-> <<>>, hasBytes |-> FALSE,
     text |-> <<>>, json |-> JsonInvalid, pdf |-> NoPdf]

Locals(fileType) ==
    [fileType |-> fileType, fields |-> <<>>, questions |-> <<>>, textLength |-> 0,
     parseIssue |-> "", readabilityScore |-> [num |-> 0, den |-> 1], usedOcr |-> FALSE,
     sourceText |-> <<>>, extractMethod |-> ""]

NoOcr == [page |-> 1, chunks |-> <<>>, pending |-> "none", text |-> <<>>]

ExtractIdle ==
    /\ file = NoFile
    /\ xpc = "idle"
    /\ x = Locals(<<>>)
    /\ ocr = NoOcr
    /\ parsers = [text |-> "none", ocr |-> "none"]
    /\ xlog = <<>>
    /\ source = Locals(<<>>)

fileNameOf(f) == toLowerCase(f.originalname)
mimeOf(f) == f.mimetype
isPdfFile(f) == EndsWith(fileNameOf(f), <<".", "p", "d", "f">>) \/ "pdf" \in Range(mimeOf(f))
isCsvFile(f) == EndsWith(fileNameOf(f), <<".", "c", "s", "v">>) \/ "csv" \in Range(mimeOf(f))
isJsonFile(f) == EndsWith(fileNameOf(f), <<".", "j", "s", "o", "n">>) \/ "json" \in Range(mimeOf(f))
isTextFile(f) ==
    \/ EndsWith(fileNameOf(f), <<".", "t", "x", "t">>)
    \/ EndsWith(fileNameOf(f), <<".", "m", "d">>)
    \/ EndsWith(fileNameOf(f), <<".", "t", "s", "v">>)
    \/ StartsWith(mimeOf(f), <<"text", "/">>)

\* isPdf ? 'pdf' : fileName.split('.').pop() || 'unknown'
fileTypeOf(f) ==
    LET parts == split(fileNameOf(f), {"."})
    IN  IF isPdfFile(f) THEN <<"p", "d", "f">>
        ELSE IF parts[Len(parts)] # <<>> THEN parts[Len(parts)]
        ELSE <<"unknown">>

\* The branches that read the buffer as text (csv, json, txt/md/tsv), lines 668-679, 726-737.
rawTextLocals(f) ==
    LET base == [Locals(fileTypeOf(f)) EXCEPT !.textLength = Len(f.text),
                                              !.sourceText = f.text,
                                              !.extractMethod = "raw_text"]
    IN  IF isCsvFile(f) THEN [base EXCEPT !.fields = parseCsvHeader(f.text)]
        ELSE IF isJsonFile(f) THEN [base EXCEPT !.fields = parseJsonKeys(f.json)]
        ELSE IF isTextFile(f) THEN [base EXCEPT !.fields = extractFieldsFromText(f.text)]
        ELSE Locals(fileTypeOf(f))

\* Lines 739-752: fields to questions when there are none yet, and the result.
resultOf(l) ==
    LET questions == IF l.questions = <<>> THEN questionsFromFields(l.fields) ELSE l.questions
    IN  [l EXCEPT !.questions = Take(questions, MAX_SOURCE_QUESTIONS),
                  !.sourceText = Take(l.sourceText, SOURCE_TEXT_MAX),
                  !.fields = <<>>]

OCR_FIRST_PAGES == 2

Log(event) == xlog' = Append(xlog, event)

\* Lines 642-679 and 726-752: no buffer, or a file read as text, is handled
\* without suspension; a PDF enters the text-layer attempt.
X_Start ==
    /\ xpc = "start"
    /\ IF ~file.present \/ ~file.hasBytes
         THEN /\ x' = Locals(<<>>)
              /\ source' = Locals(<<>>)
              /\ xpc' = "returned"
              /\ UNCHANGED xlog
       ELSE IF isCsvFile(file) \/ isJsonFile(file) \/ ~isPdfFile(file)
         THEN /\ x' = rawTextLocals(file)
              /\ source' = resultOf(rawTextLocals(file))
              /\ xpc' = "returned"
              /\ UNCHANGED xlog
       ELSE /\ x' = Locals(fileTypeOf(file))
            /\ xpc' = "text_ctor"
            /\ Log("text_start")
            /\ UNCHANGED source
    /\ UNCHANGED <<file, ocr, parsers, retryVars, llmVars, handlerVars>>

\* catch (error) of the text-layer attempt, lines 697-700.
parseFailed(l) == [l EXCEPT !.parseIssue = "pdf_parse_failed", !.questions = <<>>]

\* finally { if (parser) ... }, lines 701-705: where the text-layer attempt
\* goes after its try and catch blocks.
textFinally(parser) == IF parser = "open" THEN "text_destroy" ELSE "ocr_gate"

\* The text-layer attempt is over when control reaches line 707.
LogTextStep(event, next) ==
    xlog' = xlog \o (IF next = "ocr_gate" THEN <<event, "text_end">> ELSE <<event>>)

\* parser = new PDFParse({ data: file.buffer }), line 683.  When it throws,
\* parser stays undefined and the finally block has nothing to destroy.
X_TextCtor ==
    /\ xpc = "text_ctor"
    /\ \/ /\ parsers' = [parsers EXCEPT !.text = "open"]
          /\ xpc' = "get_text"
          /\ UNCHANGED <<x, xlog>>
       \/ /\ x' = parseFailed(x)
          /\ xpc' = textFinally(parsers.text)
          /\ LogTextStep("text_threw", textFinally(parsers.text))
          /\ UNCHANGED parsers
    /\ UNCHANGED <<file, ocr, source, retryVars, llmVars, handlerVars>>

lowQuality(score) == ScoreBelow(score, PDF_TEXT_MIN_READABILITY)

\* Faulty variant: the questions of a garbled text layer are kept.
keepGarbledQuestions(l, text) ==
    LET textLength == Len(trim(text))
        readabilityScore == getTextReadabilityScore(text)
        base == [l EXCEPT !.textLength = textLength,
                          !.sourceText = text,
                          !.extractMethod = "pdf_text",
                          !.readabilityScore = readabilityScore,
                          !.questions = extractQuestionsFromPdfText(text)]
    IN  IF textLength = 0 THEN [base EXCEPT !.parseIssue = "pdf_no_text"]
        ELSE IF lowQuality(readabilityScore)
          THEN [base EXCEPT !.parseIssue = "pdf_low_quality_text"]
        ELSE base

\* Lines 685-696: the text layer was read.
textLayerRead(l, text) ==
    LET textLength == Len(trim(text))
        readabilityScore == getTextReadabilityScore(text)
        base == [l EXCEPT !.textLength = textLength,
                          !.sourceText = text,
                          !.extractMethod = "pdf_text",
                          !.readabilityScore = readabilityScore,
                          !.questions = extractQuestionsFromPdfText(text)]
    IN  IF textLength = 0 THEN [base EXCEPT !.parseIssue = "pdf_no_text"]
        ELSE IF lowQuality(readabilityScore)
          THEN [base EXCEPT !.parseIssue = "pdf_low_quality_text", !.questions = <<>>]
        ELSE base

\* const parsed = await parser.getText(), lines 684-700.
X_GetText ==
    /\ xpc = "get_text"
    /\ x' = IF file.pdf.getText.ok THEN textLayerRead(x, file.pdf.getText.text)
            ELSE parseFailed(x)
    /\ xpc' = textFinally(parsers.text)
    /\ LogTextStep(IF file.pdf.getText.ok THEN "text_read" ELSE "text_threw",
                   textFinally(parsers.text))
    /\ UNCHANGED <<file, ocr, parsers, source, retryVars, llmVars, handlerVars>>

\* .catch(() => {}) on the promise of destroy(): whether a rejection of
\* destroy() leaves the finally block as an exception.
destroyRejectionPropagates(rejected) == FALSE

\* finally { if (parser) await parser.destroy().catch(() => {}) }, lines 701-705:
\* destroy() resolves or rejects.  An exception leaving this finally block
\* would leave extractSourceFromUploadedFile, which has no handler around it.
X_TextDestroy ==
    /\ xpc = "text_destroy"
    /\ parsers.text = "open"
    /\ parsers' = [parsers EXCEPT !.text = "released"]
    /\ \E rejected \in BOOLEAN :
          /\ xpc' = IF destroyRejectionPropagates(rejected) THEN "thrown" ELSE "ocr_gate"
          /\ xlog' = xlog \o << IF rejected THEN "text_destroy_rejected" ELSE "text_destroy",
                                "text_end" >>
    /\ UNCHANGED <<file, x, ocr, source, retryVars, llmVars, handlerVars>>

\* Faulty variant: OCR whatever the text layer gave.
runOcrAlways(questions) == TRUE

\* if (!questions.length), line 707
runOcr(questions) == Len(questions) = 0

\* Line 707-709: OCR is called, or skipped.
X_OcrGate ==
    /\ xpc = "ocr_gate"
    /\ IF runOcr(x.questions)
         THEN /\ xpc' = "ocr_ctor"
              /\ ocr' = NoOcr
              /\ Log("ocr_start")
         ELSE /\ xpc' = "finish"
              /\ UNCHANGED <<ocr, xlog>>
    /\ UNCHANGED <<file, x, parsers, source, retryVars, llmVars, handlerVars>>

\* Faulty variant: the OCR parser is never destroyed.
ocrFinallyNoDestroy(parser) == "ocr_done"

\* finally { if (parser) ... }, lines 634-638: where extractTextWithPdfOcr goes
\* with its pending return or exception.
ocrFinally(parser) == IF parser = "open" THEN "ocr_destroy" ELSE "ocr_done"

\* parser = new PDFParse({ data: fileBuffer }), line 607.  When it throws the
\* exception leaves extractTextWithPdfOcr with nothing to destroy.
O_Ctor ==
    /\ xpc = "ocr_ctor"
    /\ \/ /\ parsers' = [parsers EXCEPT !.ocr = "open"]
          /\ xpc' = "ocr_shot"
          /\ UNCHANGED ocr
       \/ /\ ocr' = [ocr EXCEPT !.pending = "throw"]
          /\ xpc' = ocrFinally(parsers.ocr)
          /\ UNCHANGED parsers
    /\ UNCHANGED <<file, x, xlog, source, retryVars, llmVars, handlerVars>>

renderedPages(f) == Take(f.pdf.pages, OCR_FIRST_PAGES)

\* await parser.getScreenshot({ first: 2, ... }), lines 608-616.
O_Screenshot ==
    /\ xpc = "ocr_shot"
    /\ IF ~file.pdf.shotOk
         THEN ocr' = [ocr EXCEPT !.pending = "throw"] /\ xpc' = ocrFinally(parsers.ocr)
       ELSE IF renderedPages(file) = <<>>
         THEN /\ ocr' = [ocr EXCEPT !.pending = "return", !.text = <<>>]
              /\ xpc' = ocrFinally(parsers.ocr)
       ELSE ocr' = [ocr EXCEPT !.page = 1, !.chunks = <<>>] /\ xpc' = "ocr_page"
    /\ UNCHANGED <<file, x, parsers, xlog, source, retryVars, llmVars, handlerVars>>

\* const text = result?.data?.text?.trim(); if (text) chunks.push(text)
pushChunk(chunks, text) == IF trim(text) # <<>> THEN Append(chunks, trim(text)) ELSE chunks

\* One iteration of the page loop, lines 619-627: an empty image is skipped,
\* recognize(image, 'chi_sim+eng') gives a text or throws.
O_Page ==
    /\ xpc = "ocr_page"
    /\ ocr.page <= Len(renderedPages(file))
    /\ LET page == renderedPages(file)[ocr.page]
       IN  IF ~page.data
             THEN ocr' = [ocr EXCEPT !.page = ocr.page + 1] /\ xpc' = "ocr_page"
           ELSE IF page.chi.ok
             THEN /\ ocr' = [ocr EXCEPT !.page = ocr.page + 1,
                                        !.chunks = pushChunk(ocr.chunks, page.chi.text)]
                  /\ xpc' = "ocr_page"
           ELSE ocr' = ocr /\ xpc' = "ocr_page_eng"
    /\ UNCHANGED <<file, x, parsers, xlog, source, retryVars, llmVars, handlerVars>>

\* catch { const fallback = await recognize(imageBuffer, 'eng') ... }, lines 627-631.
O_PageEng ==
    /\ xpc = "ocr_page_eng"
    /\ LET page == renderedPages(file)[ocr.page]
       IN  IF page.eng.ok
             THEN /\ ocr' = [ocr EXCEPT !.page = ocr.page + 1,
                                        !.chunks = pushChunk(ocr.chunks, page.eng.text)]
                  /\ xpc' = "ocr_page"
           ELSE ocr' = [ocr EXCEPT !.pending = "throw"] /\ xpc' = ocrFinally(parsers.ocr)
    /\ UNCHANGED <<file, x, parsers, xlog, source, retryVars, llmVars, handlerVars>>

\* return chunks.join('\n').trim(), line 633.
O_Return ==
    /\ xpc = "ocr_page"
    /\ ocr.page > Len(renderedPages(file))
    /\ ocr' = [ocr EXCEPT !.pending = "return", !.text = trim(Join(ocr.chunks, "\n"))]
    /\ xpc' = ocrFinally(parsers.ocr)
    /\ UNCHANGED <<file, x, parsers, xlog, source, retryVars, llmVars, handlerVars>>

\* finally { if (parser) await parser.destroy().catch(() => {}) }, lines 634-638;
\* the pending return or exception then completes.
O_Destroy ==
    /\ xpc = "ocr_destroy"
    /\ parsers.ocr = "open"
    /\ parsers' = [parsers EXCEPT !.ocr = "released"]
    /\ \E rejected \in BOOLEAN :
          /\ Log(IF rejected THEN "ocr_destroy_rejected" ELSE "ocr_destroy")
          /\ ocr' = IF destroyRejectionPropagates(rejected)
                      THEN [ocr EXCEPT !.pending = "throw"] ELSE ocr
    /\ xpc' = "ocr_done"
    /\ UNCHANGED <<file, x, source, retryVars, llmVars, handlerVars>>

ocrUsable(ocrText) ==
    ocrText # <<>> /\ ScoreAtLeast(getTextReadabilityScore(ocrText), PDF_OCR_MIN_READABILITY)

\* Faulty variant: a usable OCR text is accepted before its questions are looked at.
ocrTextReadAcceptsEarly(l, ocrText) ==
    IF ~ocrUsable(ocrText) THEN l
    ELSE [l EXCEPT !.questions = extractQuestionsFromPdfText(ocrText),
                   !.usedOcr = TRUE,
                   !.parseIssue = "",
                   !.textLength = Len(ocrText),
                   !.readabilityScore = getTextReadabilityScore(ocrText),
                   !.sourceText = ocrText,
                   !.extractMethod = "pdf_ocr"]

\* Lines 710-721: the OCR text was returned.
ocrTextRead(l, ocrText) ==
    LET questions == extractQuestionsFromPdfText(ocrText)
    IN  IF ~ocrUsable(ocrText) THEN l
        ELSE IF questions = <<>> THEN [l EXCEPT !.questions = questions]
        ELSE [l EXCEPT !.questions = questions,
                       !.usedOcr = TRUE,
                       !.parseIssue = "",
                       !.textLength = Len(ocrText),
                       !.readabilityScore = getTextReadabilityScore(ocrText),
                       !.sourceText = ocrText,
                       !.extractMethod = "pdf_ocr"]

\* Lines 709-724: extractTextWithPdfOcr returned its text, or threw (logged only).
X_OcrDone ==
    /\ xpc = "ocr_done"
    /\ x' = IF ocr.pending = "return" THEN ocrTextRead(x, ocr.text) ELSE x
    /\ Log(IF ocr.pending = "return" THEN "ocr_returned" ELSE "ocr_threw")
    /\ xpc' = "finish"
    /\ UNCHANGED <<file, ocr, parsers, source, retryVars, llmVars, handlerVars>>

\* Lines 739-752 after the pdf branch.
X_Finish ==
    /\ xpc = "finish"
    /\ source' = resultOf(x)
    /\ xpc' = "returned"
    /\ UNCHANGED <<file, x, ocr, parsers, xlog, retryVars, llmVars, handlerVars>>

NextExtract ==
    \/ X_Start \/ X_TextCtor \/ X_GetText \/ X_TextDestroy \/ X_OcrGate
    \/ O_Ctor \/ O_Screenshot \/ O_Page \/ O_PageEng \/ O_Return \/ O_Destroy
    \/ X_OcrDone \/ X_Finish

(***************************************************************************)
(* Prompt analysis and the rule-based builder (src/server.js 239-448,      *)
(* 755-824)                                                                *)
(***************************************************************************)
\* /(quiz|...)/i.test(prompt) and the like: some alternative occurs in the text.
TestAny(text, words) == IncludesAny(toLowerCase(text), words)

QUIZ_WORDS ==
    { <<"q", "u", "i", "z">>, <<"ce", "yan">>, <<"ce", "shi3">>, <<"kao", "cha">>,
      <<"zhi2", "shi4", "wen", "da">>, <<"zhi2", "shi4", "ce", "shi3">> }

isQuizIntent(prompt) == TestAny(prompt, QUIZ_WORDS)

COUNT_UNITS == { <<"ti">>, <<"dao">>, <<"q", "u", "e", "s", "t", "i", "o", "n">> }
ZH_UNITS == { <<"ti">>, <<"dao">> }
ZH_NUMERALS == << "san", "si2", "wu2", "liu", "qi", "ba", "jiu", "shi5" >>

DEFAULT_QUESTION_COUNT == 8
MIN_QUESTION_COUNT == 3
MAX_QUESTION_COUNT == 20

digitValue(c) == IndexIn(c, DIGITS) - 1

\* \s*(unit) at the head of rest
unitFollows(rest, units) ==
    \E u \in units : StartsWith(toLowerCase(StripLeading(rest, WHITESPACE)), u)

\* parseDesiredQuestionCount: the leftmost match of (\d{1,2})\s*(unit), then
\* of a Chinese numeral before a unit, else 8.
parseDesiredQuestionCount(prompt) ==
    LET digitsAt(k) == IF k < Len(prompt) /\ prompt[k + 1] \in DIGIT THEN 2 ELSE 1
        arabicAt(k) == prompt[k] \in DIGIT /\ unitFollows(Drop(prompt, k + digitsAt(k) - 1), COUNT_UNITS)
        zhAt(k) == prompt[k] \in Range(ZH_NUMERALS) /\ unitFollows(Drop(prompt, k), ZH_UNITS)
        first(P(_)) == CHOOSE k \in 1..Len(prompt) : P(k) /\ \A j \in 1..(k - 1) : ~P(j)
        arabicValue(k) == IF digitsAt(k) = 2
                            THEN 10 * digitValue(prompt[k]) + digitValue(prompt[k + 1])
                            ELSE digitValue(prompt[k])
    IN  IF \E k \in 1..Len(prompt) : arabicAt(k)
          THEN Min(Max(arabicValue(first(arabicAt)), MIN_QUESTION_COUNT), MAX_QUESTION_COUNT)
        ELSE IF \E k \in 1..Len(prompt) : zhAt(k)
          THEN IndexIn(prompt[first(zhAt)], ZH_NUMERALS) + 2
        ELSE DEFAULT_QUESTION_COUNT

OPENAI_WORDS ==
    { <<"o", "p", "e", "n", "a", "i">>, <<"c", "h", "a", "t", "g", "p", "t">>, <<"g", "p", "t">>,
      <<"l", "l", "m">>, <<"da2", "mo", "xing3">>, <<"ti2", "shi6", "ci">>,
      <<"p", "r", "o", "m", "p", "t">>, <<"a", "p", "i">> }
CHINA_WORDS ==
    { <<"zhong", "guo">>, <<"zhong", "hua2">>, <<"c", "h", "i", "n", "a">>,
      <<"c", "h", "i", "n", "e", "s", "e">> }

detectQuizTopic(prompt) ==
    IF TestAny(prompt, OPENAI_WORDS) THEN "openai"
    ELSE IF TestAny(prompt, CHINA_WORDS) THEN "china"
    ELSE "unknown"

\* An entry of QUIZ_BANKS; answer is <<>> where the entry has none.
BankEntry(key, options, answer) ==
    [key |-> <<key>>, title |-> <<"title:" \o key>>, options |-> options, answer |-> answer]

Options(a, b, c, d) == << <<a>>, <<b>>, <<c>>, <<d>> >>

QUIZ_BANK_OPENAI ==
    << BankEntry("openai_foundation", Options("2012", "2015", "2018", "2020"), <<"2015">>),
       BankEntry("openai_chatgpt", Options("2021nian", "2022nian", "2023nian", "2024nian"),
                 <<"2022nian">>),
       BankEntry("openai_api_usage",
                 Options("patch the browser", "diaoyong OpenAI API", "install a driver",
                         "only Google Form"), <<"diaoyong OpenAI API">>),
       BankEntry("openai_model_choice",
                 Options("latency and cost", "screen size", "OS colour", "cable length"),
                 <<"latency and cost">>),
       BankEntry("openai_safety",
                 Options("no context", "guess", "clear context and constraints", "emoji only"),
                 <<"clear context and constraints">>),
       BankEntry("openai_temperature",
                 Options("more random", "more stable", "always longer", "always cheaper"),
                 <<"more stable">>),
       BankEntry("openai_embedding",
                 Options("image compression", "semantic similarity", "web animation",
                         "database backup"), <<"semantic similarity">>),
       BankEntry("openai_eval",
                 Options("prettier page", "less fluctuation and verified quality",
                         "mouse precision", "less latency"),
                 <<"less fluctuation and verified quality">>) >>

QUIZ_BANK_CHINA ==
    << BankEntry("china_capital", Options("Shanghai", "Beijing", "Guangzhou", "Shenzhen"),
                 <<"Beijing">>),
       BankEntry("china_national_day", Options("5yue1ri", "10yue1ri", "7yue1ri", "12yue31ri"),
                 <<"10yue1ri">>),
       BankEntry("china_longest_river",
                 Options("Huang He", "Zhu Jiang", "Chang Jiang", "Heilong Jiang"),
                 <<"Chang Jiang">>),
       BankEntry("china_highest_peak",
                 Options("Kunlun", "Qinling", "Hengduan", "Himalaya"), <<"Himalaya">>),
       BankEntry("china_currency", Options("yen", "renminbi", "won", "Singapore dollar"),
                 <<"renminbi">>),
       BankEntry("china_heritage",
                 Options("pyramids", "Great Wall", "Colosseum", "Taj Mahal"), <<"Great Wall">>),
       BankEntry("china_regions", Options("34ge", "23ge", "56ge", "31ge"), <<"34ge">>),
       BankEntry("china_festival", Options("zongzi", "tangyuan", "yuebing", "jiaozi"),
                 <<"yuebing">>) >>

QUIZ_BANK_GENERIC ==
    << BankEntry("generic_core",
                 Options("basic concepts", "history", "applications", "overall understanding"),
                 <<>>),
       BankEntry("generic_difficulty", Options("entry", "medium", "advanced", "mixed"), <<>>),
       BankEntry("generic_goal", Options("self test", "teaching", "interview", "event"), <<>>) >>

\* Faulty variant: QUIZ_BANKS has no entry for 'china'.
QuizBankWithoutChina(topic) ==
    CASE topic = "openai" -> QUIZ_BANK_OPENAI
      [] OTHER -> QUIZ_BANK_GENERIC

\* QUIZ_BANKS[topic] || QUIZ_BANKS.generic
QuizBank(topic) ==
    CASE topic = "openai" -> QUIZ_BANK_OPENAI
      [] topic = "china" -> QUIZ_BANK_CHINA
      [] OTHER -> QUIZ_BANK_GENERIC

\* Faulty variant: every selected question is worth 1 point.
generateQuizQuestionsOnePoint(prompt) ==
    LET bank == QuizBank(detectQuizTopic(prompt))
        selected == Take(bank, Min(parseDesiredQuestionCount(prompt), Len(bank)))
    IN  [k \in 1..Len(selected) |->
            Question(selected[k].key, selected[k].title, "choice", TRUE, selected[k].options,
                     selected[k].answer, 1)]

generateQuizQuestions(prompt) ==
    LET bank == QuizBank(detectQuizTopic(prompt))
        selected == Take(bank, Min(parseDesiredQuestionCount(prompt), Len(bank)))
    IN  [k \in 1..Len(selected) |->
            Question(selected[k].key, selected[k].title, "choice", TRUE, selected[k].options,
                     selected[k].answer, IF selected[k].answer # <<>> THEN 1 ELSE 0)]

SIGNUP_TITLE_WORDS ==
    { <<"bao", "ming">>, <<"huo", "dong">>, <<"can2", "hui">>, <<"can2", "sai">>, <<"jiang", "zuo">> }
SURVEY_TITLE_WORDS == { <<"wen", "juan">>, <<"diao", "yan2">>, <<"diao", "cha2">> }
JOB_TITLE_WORDS == { <<"zhao", "pin">>, <<"ying", "pin">>, <<"jian2", "li">> }
BOOKING_TITLE_WORDS == { <<"yu2", "yue">>, <<"yu2", "ding">>, <<"pai", "qi2">> }

TITLE_SUMMARY_MAX == 28

inferTitle(prompt) ==
    IF isQuizIntent(prompt)
      THEN IF TestAny(prompt, CHINA_WORDS) THEN <<"title:china quiz">> ELSE <<"title:quiz">>
    ELSE IF IncludesAny(prompt, SIGNUP_TITLE_WORDS) THEN <<"title:signup form">>
    ELSE IF IncludesAny(prompt, SURVEY_TITLE_WORDS) THEN <<"title:survey form">>
    ELSE IF IncludesAny(prompt, JOB_TITLE_WORDS) THEN <<"title:job application form">>
    ELSE IF IncludesAny(prompt, BOOKING_TITLE_WORDS) THEN <<"title:booking form">>
    ELSE IF trim(prompt) # <<>> THEN Take(trim(prompt), TITLE_SUMMARY_MAX) \o <<" - auto form">>
    ELSE <<"title:auto form">>

\* The alternatives of the filler expression of normalizeToken, in its order.
FILLERS ==
    << <<"wo", "yao">>, <<"wo", "xiang2", "yao">>, <<"qing">>, <<"bang", "wo">>, <<"xu", "yao">>,
       <<"shou2", "ji4">>, <<"bao2", "han">>, <<"bao2", "kuo">>, <<"zi", "duan">>,
       <<"xin", "xi2">> >>

\* replace(/(a|b|...)/g, ''): left to right, the first alternative that matches.
RECURSIVE removeWords(_, _)
removeWords(s, words) ==
    IF s = <<>> THEN <<>>
    ELSE IF \E k \in 1..Len(words) : StartsWith(s, words[k])
      THEN LET k == CHOOSE k \in 1..Len(words) :
                       StartsWith(s, words[k]) /\ \A j \in 1..(k - 1) : ~StartsWith(s, words[j])
           IN  removeWords(Drop(s, Len(words[k])), words)
    ELSE <<Head(s)>> \o removeWords(Tail(s), words)

TOKEN_PREFIX == {"-", "*", ".", ")"} \cup DIGIT \cup WHITESPACE

normalizeToken(token) == trim(removeWords(StripLeading(token, TOKEN_PREFIX), FILLERS))

EXPLICIT_MARKERS ==
    { <<"shou2", "ji4">>, <<"bao2", "kuo">>, <<"bao2", "han">>, <<"zi", "duan">>, <<"xin", "xi2">> }
MARKER_SEPARATORS == {FW_COLON, ":", " "}
TOKEN_SEPARATORS == {FW_DUN, FW_COMMA, ",", "/", "he", "ji5", "yu"}
LINE_TERMINATORS == {"\n", "\r"}

\* The characters `.+` takes at the head of s: up to the end of the line.
lineOf(s) == Take(s, LeadingCount(s, Range(s) \ LINE_TERMINATORS))

\* extractExplicitTokens: the leftmost marker followed, after an optional
\* separator, by at least one character of the same line.
extractExplicitTokens(prompt) ==
    LET text == trim(SelectSeq(prompt, LAMBDA c : c # "\r"))
        after(k) == Drop(text, k + 1)
        matchAt(k) == /\ SubSeq(text, k, k + 1) \in EXPLICIT_MARKERS
                      /\ lineOf(after(k)) # <<>>
        captured(k) == IF after(k)[1] \in MARKER_SEPARATORS /\ lineOf(Tail(after(k))) # <<>>
                         THEN lineOf(Tail(after(k)))
                         ELSE lineOf(after(k))
        first == CHOOSE k \in 1..(Len(text) - 1) :
                    matchAt(k) /\ \A j \in 1..(k - 1) : ~matchAt(j)
    IN  IF \E k \in 1..(Len(text) - 1) : matchAt(k)
          THEN SelectSeq(MapSeq(split(captured(first), TOKEN_SEPARATORS), normalizeToken),
                         LAMBDA t : t # <<>>)
          ELSE <<>>

\* addQuestion: seenKeys holds the non-empty keys of the questions pushed so far.
addQuestion(questions, question) ==
    IF question.key # <<>> /\ \E k \in 1..Len(questions) : questions[k].key = question.key
      THEN questions
      ELSE Append(questions, question)

RECURSIVE addQuestions(_, _)
addQuestions(questions, candidates) ==
    IF candidates = <<>> THEN questions
    ELSE addQuestions(addQuestion(questions, Head(candidates)), Tail(candidates))

FORM_WORDS == { <<"bao", "ming">>, <<"yu2", "yue">>, <<"shen", "qing">>, <<"deng", "ji3">> }
SURVEY_WORDS ==
    { <<"wen", "juan">>, <<"fan", "kui">>, <<"diao", "yan2">>, <<"man", "yi", "du">>,
      <<"ping", "jia">> }

SATISFACTION ==
    Question(<<"satisfaction">>, <<"title:satisfaction">>, "choice", TRUE,
             << <<"very satisfied">>, <<"satisfied">>, <<"average">>, <<"dissatisfied">>,
                <<"very dissatisfied">> >>, <<>>, 0)
FEEDBACK == Question(<<"feedback">>, <<"title:feedback">>, "paragraph", FALSE, <<>>, <<>>, 0)
CUSTOM_NEED == Question(<<"custom_need">>, <<"title:custom_need">>, "paragraph", TRUE, <<>>, <<>>, 0)

MIN_TOKEN_LENGTH == 2
MAX_RULE_QUESTIONS == 12

\* The question of one explicit token, lines 769-778; NoQuestion when it adds none.
tokenQuestion(token) ==
    IF findFieldByText(token) # 0 THEN FieldQuestion(FIELD_LIBRARY[findFieldByText(token)])
    ELSE IF Len(token) >= MIN_TOKEN_LENGTH
      THEN Question(<<>>, token \o <<PLEASE_FILL>>, "text", FALSE, <<>>, <<>>, 0)
    ELSE NoQuestion

\* Faulty variant: the augmentations of the prompt are added to the source questions.
augmentSourceQuestions(prompt, sourceQuestions) ==
    LET fromForm == IF IncludesAny(prompt, FORM_WORDS)
                      THEN << FieldQuestion(LibraryField(<<"name">>)),
                              FieldQuestion(LibraryField(<<"email">>)),
                              [FieldQuestion(LibraryField(<<"phone">>)) EXCEPT !.required = TRUE] >>
                      ELSE <<>>
        fromSurvey == IF IncludesAny(prompt, SURVEY_WORDS) THEN <<SATISFACTION, FEEDBACK>> ELSE <<>>
    IN  IF isQuizIntent(prompt) /\ sourceQuestions = <<>> THEN generateQuizQuestions(prompt)
        ELSE Take(addQuestions(sourceQuestions, fromForm \o fromSurvey), MAX_RULE_QUESTIONS)

parsePromptToQuestions(prompt, sourceQuestions) ==
    LET fromTokens == SelectSeq(MapSeq(extractExplicitTokens(prompt), tokenQuestion),
                                LAMBDA q : q # NoQuestion)
        fromLibrary == MapSeq(SelectSeq(FIELD_LIBRARY, LAMBDA f : fieldMatches(f, prompt)),
                              FieldQuestion)
        fromForm == IF IncludesAny(prompt, FORM_WORDS)
                      THEN << FieldQuestion(LibraryField(<<"name">>)),
                              FieldQuestion(LibraryField(<<"email">>)),
                              [FieldQuestion(LibraryField(<<"phone">>)) EXCEPT !.required = TRUE] >>
                      ELSE <<>>
        fromSurvey == IF IncludesAny(prompt, SURVEY_WORDS) THEN <<SATISFACTION, FEEDBACK>> ELSE <<>>
        questions == addQuestions(<<>>, fromTokens \o fromLibrary \o fromForm \o fromSurvey)
        fallback == addQuestions(<<>>, << FieldQuestion(LibraryField(<<"name">>)),
                                          FieldQuestion(LibraryField(<<"email">>)),
                                          CUSTOM_NEED >>)
    IN  IF sourceQuestions # <<>> THEN sourceQuestions
        ELSE IF isQuizIntent(prompt) THEN generateQuizQuestions(prompt)
        ELSE Take(IF questions = <<>> THEN fallback ELSE questions, MAX_RULE_QUESTIONS)

(***************************************************************************)
(* LLM drafts: normalisation and validation (src/server.js 826-868,        *)
(* 1015-1034)                                                              *)
(***************************************************************************)
\* A value that may be an array: Array.isArray(v), and its items.
ArrayOf(items) == [isArray |-> TRUE, items |-> items]
NotArray == [isArray |-> FALSE, items |-> <<>>]

\* Number(v): a finite number, or NaN.
Num(n) == [finite |-> TRUE, n |-> n]
NaN == [finite |-> FALSE, n |-> 0]

\* A question object as a model wrote it.  key, title and correctAnswer are
\* strings (<<>> also for a missing one), type is any string.
RawQuestion(key, title, type, required, options, correctAnswer, points) ==
    [key |-> key, title |-> title, type |-> type, required |-> required,
     options |-> options, correctAnswer |-> correctAnswer, points |-> points]

QUESTION_TYPES == {"text", "paragraph", "choice"}
MAX_OPTIONS == 8
MIN_OPTIONS == 2
MAX_LLM_QUESTIONS == 15

\* Faulty variant: options, answer and points are kept as the model wrote them.
normalizeLlmQuestionAsWritten(q, index) ==
    IF trim(q.title) = <<>> THEN NoQuestion
    ELSE Question(IF q.key # <<>> THEN q.key ELSE <<"llm_q_">> \o numberToString(index),
                  trim(q.title), IF q.type \in QUESTION_TYPES THEN q.type ELSE "text", q.required,
                  IF q.options.isArray THEN q.options.items ELSE <<>>, trim(q.correctAnswer),
                  IF q.points.finite THEN Max(0, q.points.n) ELSE 0)

\* Faulty variant: a choice whose answer is no option becomes a text question.
normalizeLlmQuestionUnlistedToText(q, index) ==
    LET title == trim(q.title)
        type == IF q.type \in QUESTION_TYPES THEN q.type ELSE "text"
        key == IF q.key # <<>> THEN q.key ELSE <<"llm_q_">> \o numberToString(index)
        correctAnswer == trim(q.correctAnswer)
        points == IF q.points.finite THEN Max(0, q.points.n) ELSE 0
        options == IF q.options.isArray
                     THEN Take(SelectSeq(MapSeq(q.options.items, trim), LAMBDA o : o # <<>>),
                               MAX_OPTIONS)
                     ELSE <<>>
        answerListed == \E k \in 1..Len(options) : options[k] = correctAnswer
    IN  IF title = <<>> THEN NoQuestion
        ELSE IF type # "choice" THEN Question(key, title, type, q.required, <<>>, <<>>, 0)
        ELSE IF Len(options) < MIN_OPTIONS \/ (correctAnswer # <<>> /\ ~answerListed)
          THEN Question(key, title, "text", q.required, <<>>, <<>>, 0)
        ELSE Question(key, title, "choice", q.required, options, correctAnswer, points)

\* The callback of rawQuestions.map, lines 829-865; NoQuestion stands for null.
normalizeLlmQuestion(q, index) ==
    LET title == trim(q.title)
        type == IF q.type \in QUESTION_TYPES THEN q.type ELSE "text"
        key == IF q.key # <<>> THEN q.key ELSE <<"llm_q_">> \o numberToString(index)
        correctAnswer == trim(q.correctAnswer)
        points == IF q.points.finite THEN Max(0, q.points.n) ELSE 0
        options == IF q.options.isArray
                     THEN Take(SelectSeq(MapSeq(q.options.items, trim), LAMBDA o : o # <<>>),
                               MAX_OPTIONS)
                     ELSE <<>>
        answerListed == \E k \in 1..Len(options) : options[k] = correctAnswer
    IN  IF title = <<>> THEN NoQuestion
        ELSE IF type # "choice" THEN Question(key, title, type, q.required, <<>>, <<>>, 0)
        ELSE IF Len(options) < MIN_OPTIONS THEN Question(key, title, "text", q.required, <<>>, <<>>, 0)
        ELSE IF correctAnswer # <<>> /\ ~answerListed
          THEN Question(key, title, "choice", q.required, options, <<>>, 0)
        ELSE Question(key, title, "choice", q.required, options, correctAnswer, points)

normalizeLlmQuestions(rawQuestions) ==
    IF ~rawQuestions.isArray THEN <<>>
    ELSE Take(SelectSeq([k \in 1..Len(rawQuestions.items) |->
                            normalizeLlmQuestion(rawQuestions.items[k], k)],
                        LAMBDA q : q # NoQuestion),
              MAX_LLM_QUESTIONS)

\* questions.filter((q) => q.correctAnswer).length
answerKeyCount(questions) == Len(SelectSeq(questions, LAMBDA q : q.correctAnswer # <<>>))

MIN_ANSWER_KEYS == 3

\* Faulty variant: no minimum of 3 answers.
answerKeysWithoutMinimum(n) == (n * 8) \div 10

\* Math.max(3, Math.floor(questions.length * 0.8)), line 1023
answerKeysRequired(n) == Max(MIN_ANSWER_KEYS, (n * 8) \div 10)

\* The condition of line 1023 negated: the draft passes the quiz validation.
passesQuizValidation(quizRequested, isQuiz, questions) ==
    ~(quizRequested /\ (~isQuiz \/ answerKeyCount(questions) < answerKeysRequired(Len(questions))))

(***************************************************************************)
(* Uploads the extraction is run on                                        *)
(***************************************************************************)
MaxPages == 2

\* Text layers: empty, blank, two interrogative lines, one interrogative line
\* among garbage (readability 8/38), a short line (under 20 characters), a
\* bulleted list, a sentence, bare field names beside an overlong line, garbage
\* only, and readability exactly 21/50 and 20/48 around the 0.42 threshold.
T_empty == <<>>
T_blank == <<" ", "\n", "\t">>
T_questions == Rep("a", 16) \o <<"?", "\r", "\n", "q", "1", " ">> \o Rep("b", 7) \o <<"\n">> \o Rep("c", 4)
T_garbledQuestion == Rep("a", 7) \o <<"?", "\n">> \o Rep(GARBAGE, 30)
T_short == <<"a", "a", "a", "a", "?">>
T_list == <<"-", " ">> \o Rep("a", 4) \o <<"\n", "-", " ">> \o Rep("b", 4)
            \o <<"\n", "1", ".", " ">> \o Rep("c", 4) \o <<"\n", "2", ")", " ">> \o Rep("d", 4)
T_sentence == Rep("a", 12) \o <<" ">> \o Rep("b", 12) \o <<".">>
T_fields == <<"xing", "ming", "\n", "ming", "zi", "\n">> \o Rep("a", 80)
T_garbage == Rep(GARBAGE, 25)
T_at42 == Rep("a", 20) \o <<"?", "\n">> \o Rep(GARBAGE, 29)
T_below42 == Rep("a", 19) \o <<"?", "\n">> \o Rep(GARBAGE, 28)

\* Texts with more than a strategy keeps: 16 interrogative lines, 13 list
\* items, 9 sentences on one line, and 16 field names (each with two
\* unreadable characters, so that it is no list item) beside an overlong line.
T_manyQuestions == Join([k \in 1..16 |-> <<"a", "a", "a", "?">>], "\n")
T_manyItems == Join([k \in 1..13 |-> <<"-", " ", "b", "b">>], "\n")
T_manySentences == Flatten([k \in 1..9 |-> Rep("c", 8) \o <<".">>])
T_manyFields == Flatten([k \in 1..16 |-> <<"a", GARBAGE, GARBAGE, "\n">>]) \o Rep("a", 80)

PdfTexts ==
    { T_empty, T_blank, T_questions, T_garbledQuestion, T_short, T_list, T_sentence,
      T_fields, T_garbage, T_at42, T_below42,
      T_manyQuestions, T_manyItems, T_manySentences, T_manyFields }

\* OCR output of a page: nothing, readability exactly 7/20 and 7/21 around the
\* 0.35 threshold, an interrogative line, a short line.
O_at35 == Rep("a", 6) \o <<"?", "\n">> \o Rep(GARBAGE, 13)
O_below35 == Rep("a", 6) \o <<"?", "\n">> \o Rep(GARBAGE, 14)
O_question == <<" ">> \o Rep("d", 21) \o <<"?", "\n">>

OcrTexts == { <<>>, O_at35, O_below35, O_question, T_short }

Pages ==
    {Page(FALSE, Throws, Throws), Page(TRUE, Throws, Throws)}
      \cup {Page(TRUE, Gives(t), Throws) : t \in OcrTexts}
      \cup {Page(TRUE, Throws, Gives(t)) : t \in {O_question, T_short}}

PageLists == UNION {[1..n -> Pages] : n \in 0..MaxPages}

PdfDocs ==
    {PdfDoc(Throws, ok, pages) : ok \in BOOLEAN, pages \in PageLists}
      \cup {PdfDoc(Gives(t), ok, pages) : t \in PdfTexts, ok \in BOOLEAN, pages \in PageLists}

PDF_NAME == <<"A", ".", "P", "D", "F">>
PDF_MIME == <<"application", "/", "pdf">>

PdfFiles == {File(PDF_NAME, PDF_MIME, TRUE, <<>>, JsonInvalid, d) : d \in PdfDocs}

(***************************************************************************)
(* withNetworkRetry (src/server.js 107-136)                                *)
(***************************************************************************)
maxAttempts == 3
backoffMs == 400

NoError == [code |-> "", cause |-> "", message |-> <<>>]

RETRYABLE_CODES == {"ECONNRESET", "ETIMEDOUT", "EAI_AGAIN", "ENOTFOUND", "ECONNREFUSED"}

\* String.prototype.toUpperCase on the words an error message is made of: the
\* regular expression of isRetryableNetworkError is case-insensitive.
ToUpperWord(w) ==
    CASE w = "econnreset" -> "ECONNRESET"
      [] w = "etimedout" -> "ETIMEDOUT"
      [] w = "enotfound" -> "ENOTFOUND"
      [] OTHER -> w

\* Errors a network call can fail with: code, cause.code, and the words of message.
NetErrors ==
    { [code |-> "ECONNRESET", cause |-> "", message |-> <<"read", "ECONNRESET">>],
      [code |-> "", cause |-> "ETIMEDOUT", message |-> <<"request", "failed">>],
      [code |-> "", cause |-> "", message |-> <<"getaddrinfo", "enotfound", "host">>],
      [code |-> "EAI_AGAIN", cause |-> "", message |-> <<>>],
      [code |-> "ECONNREFUSED", cause |-> "", message |-> <<"connect", "ECONNREFUSED">>],
      [code |-> "EPIPE", cause |-> "ECONNRESET", message |-> <<"write", "failed">>],
      [code |-> "401", cause |-> "", message |-> <<"Invalid", "Credentials">>],
      [code |-> "", cause |-> "", message |-> <<"socket", "hang", "up">>] }

isRetryableNetworkError(error) ==
    LET code == IF error.code # "" THEN error.code ELSE error.cause
    IN  \/ code \in RETRYABLE_CODES
        \/ \E k \in 1..Len(error.message) : ToUpperWord(error.message[k]) \in RETRYABLE_CODES

\* An entry of the history of withNetworkRetry.  formId is the form a call of
\* fn addresses ("" for forms.create), or the data.formId an "ok" came with.
Event(e, task, ms, err, id) ==
    [e |-> e, task |-> task, ms |-> ms, err |-> err, formId |-> id]

\* arg: the formId the closure fn passes to the Forms API; value: the
\* data.formId of what fn resolved with.
IdleRetry ==
    [task |-> "", st |-> "idle", i |-> 1, err |-> NoError, waitMs |-> 0,
     arg |-> "", value |-> ""]

\* withNetworkRetry(taskName, fn): the frame at loop entry, i = 1.
StartRetry(taskName) ==
    [task |-> taskName, st |-> "call", i |-> 1, err |-> NoError, waitMs |-> 0,
     arg |-> "", value |-> ""]

\* Form ids the Forms API answers forms.create with; a response can lack one.
FORM_IDS == {"form_A", "form_B"}

\* data.formId of what the Forms operation resolves with.
fnResults(task) == IF task = "forms.create" THEN FORM_IDS \cup {""} ELSE {""}

\* Faulty variant: a constant backoff.
waitMsOfConstant(i) == backoffMs

waitMsOf(i) == backoffMs * i

lastAttempt(i) == i = maxAttempts

\* try { return await fn() } with fn succeeding.
RetryFnReturns ==
    /\ retry.st = "call"
    /\ retry.i <= maxAttempts
    /\ \E value \in fnResults(retry.task) :
          /\ retry' = [retry EXCEPT !.st = "returned", !.value = value]
          /\ netlog' = netlog \o << Event("call", retry.task, 0, NoError, retry.arg),
                                    Event("ok", retry.task, 0, NoError, value) >>
    /\ UNCHANGED <<netFaults, extractVars, llmVars, handlerVars>>

\* try { return await fn() } catch (error): rethrow, or set waitMs and go to sleep.
RetryFnThrows ==
    /\ retry.st = "call"
    /\ retry.i <= maxAttempts
    /\ \E error \in netFaults :
        /\ netlog' = netlog \o << Event("call", retry.task, 0, NoError, retry.arg),
                                  Event("fail", retry.task, 0, error, "") >>
        /\ IF ~isRetryableNetworkError(error) \/ lastAttempt(retry.i)
             THEN retry' = [retry EXCEPT !.st = "thrown", !.err = error]
             ELSE retry' = [retry EXCEPT !.st = "sleep", !.err = error,
                                         !.waitMs = waitMsOf(retry.i)]
    /\ UNCHANGED <<netFaults, extractVars, llmVars, handlerVars>>

\* await sleep(waitMs), then the next iteration of the loop.
RetrySleep ==
    /\ retry.st = "sleep"
    /\ retry' = [retry EXCEPT !.st = "call", !.i = retry.i + 1]
    /\ netlog' = Append(netlog, Event("sleep", retry.task, retry.waitMs, NoError, ""))
    /\ UNCHANGED <<netFaults, extractVars, llmVars, handlerVars>>

FORMS_TASKS == {"forms.create", "forms.batchUpdate", "forms.get"}

(***************************************************************************)
(* generateFormDraftWithLLM (src/server.js 870-1037)                       *)
(***************************************************************************)
DEFAULT_MODEL == "gpt-4.1-mini"
FALLBACK_MODELS == <<"gpt-4.1-mini", "gpt-4o-mini">>

\* const OPENAI_MODEL = process.env.OPENAI_MODEL || 'gpt-4.1-mini', line 19
OPENAI_MODEL(e) == IF e.model # "" THEN e.model ELSE DEFAULT_MODEL

\* [OPENAI_MODEL, 'gpt-4.1-mini', 'gpt-4o-mini'].filter(Boolean), line 919
modelCandidates(e) == SelectSeq(<<OPENAI_MODEL(e)>> \o FALLBACK_MODELS, LAMBDA m : m # "")

\* [...proxyCandidates, '']: the configured proxies, 'http://127.0.0.1:7890', and
\* the direct path; lines 942-947, 981.
egressPaths(e) == e.envProxies + 2

\* The proxies of the environment, each named by its variable, in the order
\* of line 943-945; the local proxy of line 946; '' for no proxy.
ENV_PROXIES == <<"OPENAI_PROXY", "HTTPS_PROXY", "HTTP_PROXY">>
LOCAL_PROXY == "http://127.0.0.1:7890"
DIRECT == ""

\* [OPENAI_PROXY, HTTPS_PROXY, HTTP_PROXY, 'http://127.0.0.1:7890'].filter(Boolean)
proxyCandidates(e) == SubSeq(ENV_PROXIES, 1, e.envProxies) \o <<LOCAL_PROXY>>

\* Faulty variant: the direct path is tried first.
egressDirectFirst(e) == <<DIRECT>> \o proxyCandidates(e)

\* [...proxyCandidates, ''], line 981
egressList(e) == proxyCandidates(e) \o <<DIRECT>>

\* One call of requestOpenAI(proxyUrl) and what it settled with.
EgressRequest(proxyUrl, reply) ==
    [proxyUrl |-> proxyUrl, settled |-> reply.settled, status |-> reply.status]

\* JSON.parse(content) gives: what the model wrote as its draft.
ParsedDraft(isQuiz, title, description, questions) ==
    [isQuiz |-> isQuiz, title |-> title, description |-> description, questions |-> questions]
NoParsedDraft == ParsedDraft(FALSE, <<>>, <<>>, NotArray)

\* A response body: whether it is JSON, and its choices[0].message.content:
\* "none" (missing, null or ''), "text" (not JSON), "null" (the JSON null) or
\* "draft" (JSON of an object).
Body(json, content, parsed) == [json |-> json, content |-> content, parsed |-> parsed]
NoBody == Body(FALSE, "none", NoParsedDraft)

\* What requestOpenAI settles with: a rejection, or { status, text }.
Rejected == [settled |-> "rejected", status |-> 0, body |-> NoBody]
Resolved(status, body) == [settled |-> "resolved", status |-> status, body |-> body]
NoResponseData == [settled |-> "none", status |-> 0, body |-> NoBody]

\* The draft generateFormDraftWithLLM returns; present is FALSE for null.
LlmDraft(isQuiz, title, description, questions, model) ==
    [present |-> TRUE, isQuiz |-> isQuiz, title |-> title, description |-> description,
     questions |-> questions, llmModelUsed |-> model]
NullDraft ==
    [present |-> FALSE, isQuiz |-> FALSE, title |-> <<>>, description |-> <<>>,
     questions |-> <<>>, llmModelUsed |-> ""]

IdleLlm ==
    [st |-> "idle", prompt |-> <<>>, quizRequested |-> FALSE, candidates |-> <<>>, k |-> 0,
     tried |-> <<>>, path |-> 0, requests |-> <<>>, responseData |-> NoResponseData,
     result |-> NullDraft, error |-> ""]

\* generateFormDraftWithLLM(prompt, sourceName, sourceText, quizRequested) at entry.
StartLlm(prompt, quizRequested) ==
    [IdleLlm EXCEPT !.st = "start", !.prompt = prompt, !.quizRequested = quizRequested]

LlmIdle ==
    /\ env = [apiKey |-> FALSE, model |-> "", envProxies |-> 0, replies |-> {}]
    /\ llm = IdleLlm
    /\ llmlog = <<>>

\* Line 871, and the set-up of the loop over the candidates.
L_Enter ==
    /\ llm.st = "start"
    /\ llm' = IF ~env.apiKey
                THEN [llm EXCEPT !.st = "returned", !.result = NullDraft]
                ELSE [llm EXCEPT !.st = "loop", !.candidates = modelCandidates(env)]
    /\ UNCHANGED <<env, llmlog, retryVars, extractVars, handlerVars>>

\* for (const model of modelCandidates): the next candidate, skipped when it
\* was tried; after the last one the combined error is thrown (line 1036).
L_NextModel ==
    /\ llm.st = "loop"
    /\ llm' = IF llm.k = Len(llm.candidates)
                THEN [llm EXCEPT !.st = "thrown", !.error = "All OpenAI model attempts failed"]
              ELSE IF \E j \in 1..Len(llm.tried) : llm.tried[j] = llm.candidates[llm.k + 1]
                THEN [llm EXCEPT !.k = llm.k + 1]
              ELSE [llm EXCEPT !.k = llm.k + 1,
                               !.tried = Append(llm.tried, llm.candidates[llm.k + 1]),
                               !.st = "request", !.path = 1, !.requests = <<>>,
                               !.responseData = NoResponseData]
    /\ UNCHANGED <<env, llmlog, retryVars, extractVars, handlerVars>>

\* One iteration of the loop over the egress paths, lines 981-988.
L_Request ==
    /\ llm.st = "request"
    /\ \E reply \in env.replies :
          LET responseData == IF reply.settled = "resolved" THEN reply ELSE llm.responseData
              done == (reply.settled = "resolved" /\ reply.status # 0)
                          \/ llm.path = egressPaths(env)
          IN  llm' = [llm EXCEPT !.responseData = responseData,
                                 !.requests = Append(llm.requests,
                                                     EgressRequest(egressList(env)[llm.path], reply)),
                                 !.path = IF done THEN llm.path ELSE llm.path + 1,
                                 !.st = IF done THEN "judge" ELSE "request"]
    /\ UNCHANGED <<env, llmlog, retryVars, extractVars, handlerVars>>

HTTP_OK_MIN == 200
HTTP_OK_MAX == 299

\* Reasons for which lines 990-1026 abandon a model attempt with `continue`.
ABANDONED ==
    {"no_response", "bad_status", "non_json", "empty_content", "no_questions", "quiz_rejected"}

\* The title and description of the returned draft, lines 1030-1031.
draftTitle(parsed, prompt) ==
    IF trim(parsed.title) # <<>> THEN trim(parsed.title) ELSE inferTitle(prompt)
draftDescription(parsed, prompt) ==
    IF trim(parsed.description) # <<>> THEN trim(parsed.description)
    ELSE <<"description:prompt">> \o prompt

\* Lines 990-1026 on the response of one model: the reason the attempt is
\* abandoned for, the exception that leaves the function, or "accepted".
\* JSON.parse(content) (line 1015) is outside any try block: content that is
\* not JSON throws a SyntaxError, and parsed.questions on null a TypeError.
judge(responseData, quizRequested) ==
    LET body == responseData.body
        questions == normalizeLlmQuestions(body.parsed.questions)
    IN  IF responseData.settled = "none" THEN "no_response"
        ELSE IF responseData.status < HTTP_OK_MIN \/ responseData.status > HTTP_OK_MAX
          THEN "bad_status"
        ELSE IF ~body.json THEN "non_json"
        ELSE IF body.content = "none" THEN "empty_content"
        ELSE IF body.content = "text" THEN "SyntaxError"
        ELSE IF body.content = "null" THEN "TypeError"
        ELSE IF questions = <<>> THEN "no_questions"
        ELSE IF ~passesQuizValidation(quizRequested, body.parsed.isQuiz, questions)
          THEN "quiz_rejected"
        ELSE "accepted"

Attempt(model, outcome, responseData) ==
    [model |-> model, outcome |-> outcome, responseData |-> responseData]

\* Lines 990-1034: the response of the current model is judged.
L_Judge ==
    /\ llm.st = "judge"
    /\ LET model == llm.candidates[llm.k]
           outcome == judge(llm.responseData, llm.quizRequested)
           parsed == llm.responseData.body.parsed
       IN  /\ llmlog' = Append(llmlog, Attempt(model, outcome, llm.responseData))
           /\ llm' = IF outcome \in ABANDONED THEN [llm EXCEPT !.st = "loop"]
                     ELSE IF outcome = "accepted"
                       THEN [llm EXCEPT !.st = "returned",
                                        !.result = LlmDraft(parsed.isQuiz,
                                                            draftTitle(parsed, llm.prompt),
                                                            draftDescription(parsed, llm.prompt),
                                                            normalizeLlmQuestions(parsed.questions),
                                                            model)]
                     ELSE [llm EXCEPT !.st = "thrown", !.error = outcome]
    /\ UNCHANGED <<env, retryVars, extractVars, handlerVars>>

NextLlm == L_Enter \/ L_NextModel \/ L_Request \/ L_Judge

(***************************************************************************)
(* Replies of the LLM service and server configurations                    *)
(***************************************************************************)
MaxEnvProxies == 1

\* A choice question with two options, with or without its answer.
QuizQuestion(k, answered) ==
    RawQuestion(<<"quiz_">> \o numberToString(k), <<"Q">> \o numberToString(k), "choice", TRUE,
                ArrayOf(<< <<"a">>, <<"b">> >>), IF answered THEN <<"a">> ELSE <<>>, Num(1))

\* A quiz draft of n questions, the first a of them with an answer.
QuizDraft(n, a, isQuiz) ==
    ParsedDraft(isQuiz, <<"T">>, <<"D">>, ArrayOf([k \in 1..n |-> QuizQuestion(k, k <= a)]))

\* A form draft: a padded title, a key left out, an unknown type, a blank
\* title, an answer that is no option, a choice with one option, a repeated key.
FormDraft ==
    ParsedDraft(FALSE, <<" ">>, <<>>,
        ArrayOf(<< RawQuestion(<<>>, <<" ", "a", " ">>, "choice", TRUE,
                               ArrayOf(<< <<"x", " ">>, <<>>, <<"y">> >>), <<" ", "x">>, Num(-2)),
                   RawQuestion(<<"k">>, <<"b">>, "rating", FALSE, NotArray, <<"x">>, Num(5)),
                   RawQuestion(<<"k2">>, <<" ">>, "text", FALSE, NotArray, <<>>, Num(0)),
                   RawQuestion(<<"k">>, <<"c">>, "choice", FALSE,
                               ArrayOf(<< <<"x">>, <<"y">> >>), <<"z">>, Num(5)),
                   RawQuestion(<<>>, <<"d">>, "choice", FALSE, ArrayOf(<< <<"x">> >>), <<"x">>, NaN),
                   RawQuestion(<<"p">>, <<"e">>, "paragraph", TRUE,
                               ArrayOf(<< <<"x">>, <<"y">> >>), <<"x">>, Num(2)) >>))

EmptyDraft == ParsedDraft(TRUE, <<"T">>, <<"D">>, ArrayOf(<<>>))
ScalarDraft == ParsedDraft(FALSE, <<>>, <<>>, NotArray)

\* A draft of choices: nine options with the ninth as the answer; one option
\* among blanks; two options with a listed answer; two options and no answer.
ChoiceDraft ==
    ParsedDraft(FALSE, <<"T">>, <<"D">>,
        ArrayOf(<< RawQuestion(<<"c1">>, <<"a">>, "choice", TRUE,
                               ArrayOf([k \in 1..9 |-> <<"o">> \o numberToString(k)]),
                               <<"o", "9">>, Num(1)),
                   RawQuestion(<<"c2">>, <<"b">>, "choice", TRUE,
                               ArrayOf(<< <<" ">>, <<"x">>, <<>> >>), <<>>, Num(1)),
                   RawQuestion(<<"c3">>, <<"c">>, "choice", FALSE,
                               ArrayOf(<< <<"x">>, <<"y">> >>), <<"y", " ">>, Num(2)),
                   RawQuestion(<<"c4">>, <<"d">>, "choice", FALSE,
                               ArrayOf(<< <<"x">>, <<"y">> >>), <<>>, Num(3)) >>))

ParsedDrafts ==
    { ChoiceDraft, QuizDraft(5, 1, TRUE), QuizDraft(5, 4, TRUE), QuizDraft(4, 3, TRUE), QuizDraft(4, 2, TRUE),
      QuizDraft(6, 4, TRUE), QuizDraft(3, 3, TRUE), QuizDraft(2, 2, TRUE), QuizDraft(5, 5, FALSE),
      FormDraft, EmptyDraft, ScalarDraft }

Replies ==
    { Rejected, Resolved(0, NoBody), Resolved(500, NoBody), Resolved(200, NoBody),
      Resolved(200, Body(TRUE, "none", NoParsedDraft)),
      Resolved(200, Body(TRUE, "text", NoParsedDraft)),
      Resolved(200, Body(TRUE, "null", NoParsedDraft)) }
      \cup {Resolved(200, Body(TRUE, "draft", d)) : d \in ParsedDrafts}

ENV_MODELS == {"", "gpt-4o-mini", "gpt-4o"}

Env(apiKey, model, envProxies, replies) ==
    [apiKey |-> apiKey, model |-> model, envProxies |-> envProxies, replies |-> replies]

LlmEnvs ==
    {Env(TRUE, m, n, Replies) : m \in ENV_MODELS, n \in 0..MaxEnvProxies}
      \cup {Env(FALSE, "", 0, Replies)}

(***************************************************************************)
(* buildFormDraft (src/server.js 1039-1069)                                *)
(***************************************************************************)
Draft(title, description, questions, generationMode, isQuiz, needLlmForQuiz, llmModelUsed) ==
    [title |-> title, description |-> description, questions |-> questions,
     generationMode |-> generationMode, isQuiz |-> isQuiz, needLlmForQuiz |-> needLlmForQuiz,
     llmModelUsed |-> llmModelUsed]
NoDraft == Draft(<<>>, <<>>, <<>>, "", FALSE, FALSE, "")

\* prompt || `...${sourceName || 'uploaded file'}`, line 1040
llmInputPrompt(prompt, sourceName) ==
    IF prompt # <<>> THEN prompt
    ELSE <<"prompt:build a form from the file">>
             \o (IF sourceName # <<>> THEN sourceName ELSE <<"uploaded file">>)

\* Faulty variant: the questions of the LLM are kept whatever the desired count.
llmFormDraftUntrimmed(llmDraft, prompt) ==
    Draft(llmDraft.title, llmDraft.description, llmDraft.questions,
          "llm", isQuizIntent(prompt) \/ llmDraft.isQuiz, FALSE, llmDraft.llmModelUsed)

\* Lines 1046-1052: the draft of the LLM with its questions cut to the desired
\* count of a quiz.  The draft of the LLM has no needLlmForQuiz.
llmFormDraft(llmDraft, prompt) ==
    Draft(llmDraft.title, llmDraft.description,
          IF isQuizIntent(prompt)
            THEN Take(llmDraft.questions, parseDesiredQuestionCount(prompt))
            ELSE llmDraft.questions,
          "llm", isQuizIntent(prompt) \/ llmDraft.isQuiz, FALSE, llmDraft.llmModelUsed)

\* Lines 1058-1068: the draft of the rule-based builder.
ruleFormDraft(prompt, sourceQuestions, sourceName) ==
    LET questions == parsePromptToQuestions(prompt, sourceQuestions)
        isQuiz == isQuizIntent(prompt)
                    \/ \E k \in 1..Len(questions) : questions[k].correctAnswer # <<>>
    IN  Draft(IF sourceQuestions # <<>>
                THEN (IF sourceName # <<>> THEN sourceName ELSE <<"file">>) \o <<" - auto form">>
                ELSE inferTitle(prompt),
              IF sourceQuestions # <<>> THEN <<"description:from file">>
              ELSE IF isQuizIntent(prompt) THEN <<"description:quiz from prompt">>
              ELSE <<"description:form from prompt">>,
              questions, "rule", isQuiz, isQuiz /\ detectQuizTopic(prompt) = "unknown", "")

\* Faulty variant: only the combined error is caught.
catchesCombinedErrorOnly(error) == error = "All OpenAI model attempts failed"

\* catch (error), line 1054: every exception of the try block is caught.
catchesLlmError(error) == TRUE

\* The exception that leaves buildFormDraft: none in the code; the handler
\* would answer it from its catch block.
ThrownDraft == [NoDraft EXCEPT !.generationMode = "threw"]

\* buildFormDraft once generateFormDraftWithLLM has returned or thrown: the
\* try block keeps the draft of the LLM, the catch block only logs.
buildFormDraft(frame, prompt, sourceQuestions, sourceName) ==
    IF frame.st = "returned" /\ frame.result.present
      THEN llmFormDraft(frame.result, prompt)
    ELSE IF frame.st = "thrown" /\ ~catchesLlmError(frame.error) THEN ThrownDraft
    ELSE ruleFormDraft(prompt, sourceQuestions, sourceName)

(***************************************************************************)
(* POST /api/forms/generate (src/server.js 1118-1265)                      *)
(***************************************************************************)
\* Buffer.from(name, 'latin1').toString('utf8'): an ASCII character is kept;
\* the low byte of any other character is no complete UTF-8 sequence.
decodeUploadFileName(name) ==
    [k \in 1..Len(name) |->
        IF name[k] \in LETTER \cup DIGIT \cup {".", "_", "-", " "} THEN name[k] ELSE GARBAGE]

Request(prompt) == [prompt |-> prompt]

Response(status, error) == [status |-> status, error |-> error]
NoResponse == Response(0, "")

HandlerIdle ==
    /\ req = Request(<<>>)
    /\ pc = "idle"
    /\ draft = NoDraft
    /\ res = NoResponse
    /\ formId = ""

\* Faulty variant: the prompt is not trimmed.
promptUntrimmed(r) == r.prompt

\* req.body?.prompt?.trim() || '', line 1119
promptOf(r) == trim(r.prompt)
sourceNameOf(f) == IF f.present THEN decodeUploadFileName(f.originalname) ELSE <<>>

HTTP_OK == 200
HTTP_BAD_REQUEST == 400
HTTP_UNAUTHORIZED == 401
HTTP_SERVER_ERROR == 500
HTTP_UNAVAILABLE == 503

\* Faulty variant: any upload without questions is rejected.
uploadParseEmpty(f, s) == f.present /\ s.questions = <<>>

\* if (req.file && source.fileType === 'pdf' && !sourceQuestions.length), line 1125
pdfParseEmpty(f, s) == f.present /\ s.fileType = <<"p", "d", "f">> /\ s.questions = <<>>

\* if (!prompt && !sourceQuestions.length), line 1138
invalidPrompt(prompt, sourceQuestions) == prompt = <<>> /\ sourceQuestions = <<>>

\* Lines 1119-1163 once extractSourceFromUploadedFile has returned: the two
\* rejections, else buildFormDraft is called, which calls generateFormDraftWithLLM.
H_PreChecks ==
    /\ pc = "extract"
    /\ xpc \in {"returned", "thrown"}
    /\ IF xpc = "thrown"
         THEN /\ pc' = "unhandled"
              /\ UNCHANGED <<res, llm>>
       ELSE IF pdfParseEmpty(file, source)
         THEN /\ res' = Response(HTTP_BAD_REQUEST, "pdf_parse_empty")
              /\ pc' = "done"
              /\ UNCHANGED llm
       ELSE IF invalidPrompt(promptOf(req), source.questions)
         THEN /\ res' = Response(HTTP_BAD_REQUEST, "invalid_prompt")
              /\ pc' = "done"
              /\ UNCHANGED llm
       ELSE /\ llm' = StartLlm(llmInputPrompt(promptOf(req), sourceNameOf(file)),
                               isQuizIntent(promptOf(req)))
            /\ pc' = "draft"
            /\ UNCHANGED res
    /\ UNCHANGED <<req, draft, formId, env, llmlog, retryVars, extractVars>>

\* buildFormDraft returns to line 1163.
B_Return ==
    /\ pc = "draft"
    /\ llm.st \in {"returned", "thrown"}
    /\ draft' = buildFormDraft(llm, promptOf(req), source.questions, sourceNameOf(file))
    /\ pc' = "gate"
    /\ UNCHANGED <<req, res, formId, llmVars, retryVars, extractVars>>

\* catch (error), lines 1255-1264
errorResponse(error) ==
    Response(IF error.code = "401" THEN HTTP_UNAUTHORIZED ELSE HTTP_SERVER_ERROR,
             "form_generation_failed")

\* Faulty variant: no gate before the Forms calls.
quizLlmNeverRequired(d) == FALSE

\* if (draft.needLlmForQuiz && draft.generationMode !== 'llm'), line 1164
quizLlmRequired(d) == d.needLlmForQuiz /\ d.generationMode # "llm"

\* Lines 1164-1172: the 503, or forms.create is called through withNetworkRetry.
H_Gate ==
    /\ pc = "gate"
    /\ IF draft = ThrownDraft
         THEN /\ res' = errorResponse(NoError)
              /\ pc' = "done"
              /\ UNCHANGED retry
       ELSE IF quizLlmRequired(draft)
         THEN /\ res' = Response(HTTP_UNAVAILABLE, "quiz_llm_required")
              /\ pc' = "done"
              /\ UNCHANGED retry
         ELSE /\ retry' = StartRetry("forms.create")
              /\ pc' = "forms.create"
              /\ UNCHANGED res
    /\ UNCHANGED <<req, draft, formId, netlog, netFaults, llmVars, extractVars>>

\* Faulty variant: forms.get is called before forms.batchUpdate.
nextFormsCallGetFirst(task) ==
    CASE task = "forms.create" -> "forms.get"
      [] task = "forms.get" -> "forms.batchUpdate"
      [] OTHER -> "done"

nextFormsCall(task) ==
    CASE task = "forms.create" -> "forms.batchUpdate"
      [] task = "forms.batchUpdate" -> "forms.get"
      [] OTHER -> "done"

\* withNetworkRetry(taskName, () => forms.forms.<op>({ formId, ... })): the
\* closure addresses the form of the handler's formId, lines 1215-1227.
formsCall(task, id) == [StartRetry(task) EXCEPT !.arg = id]

\* A call through withNetworkRetry has returned or thrown: lines 1186-1189
\* (a response without formId throws), 1215, 1225, 1231 and the catch block.
H_FormsCallDone ==
    /\ pc \in FORMS_TASKS
    /\ retry.task = pc
    /\ retry.st \in {"returned", "thrown"}
    /\ \/ /\ retry.st = "thrown"
          /\ res' = errorResponse(retry.err)
          /\ pc' = "done"
          /\ UNCHANGED <<retry, formId>>
       \/ /\ retry.st = "returned"
          /\ pc = "forms.create"
          /\ retry.value = ""
          /\ res' = errorResponse(NoError)
          /\ pc' = "done"
          /\ UNCHANGED <<retry, formId>>
       \/ /\ retry.st = "returned"
          /\ pc = "forms.create"
          /\ retry.value # ""
          /\ formId' = retry.value
          /\ retry' = formsCall(nextFormsCall(pc), formId')
          /\ pc' = nextFormsCall(pc)
          /\ UNCHANGED res
       \/ /\ retry.st = "returned"
          /\ pc \notin {"forms.create", "forms.get"}
          /\ retry' = formsCall(nextFormsCall(pc), formId)
          /\ pc' = nextFormsCall(pc)
          /\ UNCHANGED <<res, formId>>
       \/ /\ retry.st = "returned"
          /\ pc = "forms.get"
          /\ res' = Response(HTTP_OK, "")
          /\ pc' = "done"
          /\ UNCHANGED <<retry, formId>>
    /\ UNCHANGED <<req, draft, netlog, netFaults, llmVars, extractVars>>

NextHandler == H_PreChecks \/ B_Return \/ H_Gate \/ H_FormsCallDone

(***************************************************************************)
(* Requests                                                                *)
(***************************************************************************)
\* Prompts: a quiz on a topic without a bank asking for 5 questions, a quiz on
\* China asking for five, a quiz on GPT, an event signup, a list of fields to
\* collect (the name twice), a greeting, and blanks only.
P_quiz == <<" ", "l", "i", "s", "h", "i", "ce", "yan", " ", "5", "ti", " ">>
P_chinaQuiz == <<"zhong", "guo", "zhi2", "shi4", "ce", "yan", " ", "wu2", "dao">>
P_gptQuiz == <<"G", "P", "T", " ", "Q", "u", "i", "z">>
P_signup == <<"huo", "dong", "bao", "ming">>
P_collect ==
    <<"wo", "yao", "shou2", "ji4", FW_COLON, "xing", "ming", FW_DUN, "ming", "zi", FW_DUN,
      "1", ".", "a", "b", "he", "x", ",", "qing", "gong", "si", "xin", "xi2">>
P_plain == <<"h", "e", "l", "l", "o">>
P_blank == <<" ", "\n">>

Prompts == {P_quiz, P_chinaQuiz, P_gptQuiz, P_signup, P_collect, P_plain, P_blank}

\* Prompts for the draft builder: a bare signup form; a signup that also names
\* the phone and a survey; a quiz on China asking for 8 questions; a quiz on
\* China asking for 12, more than its bank holds.
P_signupForm == <<"bao", "ming", "biao">>
P_signupPhone == <<"bao", "ming", FW_COMMA, "shou", "ji", FW_COMMA, "wen", "juan">>
P_chinaQuiz8 ==
    <<"bang", "wo", "zuo", "yi3", "ge", "guan", "yu3", "zhong", "guo", "de", "ce", "yan",
      FW_COMMA, "8", "ti">>
P_chinaQuiz12 ==
    <<"C", "h", "i", "n", "a", " ", "q", "u", "i", "z", " ", "1", "2", " ",
      "q", "u", "e", "s", "t", "i", "o", "n", "s">>

\* A signup that lists 12 fields of its own, f1 .. f12.
P_signupFields ==
    <<"bao", "ming", FW_COMMA, "zi", "duan", FW_COLON>>
        \o Join([k \in 1..12 |-> <<"f">> \o numberToString(k)], ",")

BuildPrompts ==
    Prompts \cup {P_signupForm, P_signupPhone, P_signupFields, P_chinaQuiz8, P_chinaQuiz12}

CSV_NAME == <<"a", ".", "c", "s", "v">>
CSV_MIME == <<"text", "/", "csv">>
TXT_NAME == <<"n", "o", "t", "e", "s", ".", "T", "X", "T">>
TXT_MIME == <<"text", "/", "plain">>

\* Uploads: none; a CSV whose header names the name twice; a CSV of an email,
\* a note and a free column; a text file of fields; PDFs with a readable text
\* layer, with field names only, with a garbled layer and a page OCR reads,
\* and one nothing can be read from.
F_csvNames == File(CSV_NAME, CSV_MIME, TRUE, <<"xing", "ming", ",", "ming", "zi", "\n", "x">>,
                   JsonInvalid, NoPdf)
F_csvMixed ==
    File(CSV_NAME, CSV_MIME, TRUE,
         <<"E", "m", "a", "i", "l", ",", "N", "o", "t", "e", ",", "f", "o", "o", "_", "b", "a", "r">>,
         JsonInvalid, NoPdf)
F_text == File(TXT_NAME, TXT_MIME, TRUE, T_fields, JsonInvalid, NoPdf)
F_pdfQuestions == File(PDF_NAME, PDF_MIME, TRUE, <<>>, JsonInvalid, PdfDoc(Gives(T_questions), TRUE, <<>>))
F_pdfFields == File(PDF_NAME, PDF_MIME, TRUE, <<>>, JsonInvalid, PdfDoc(Gives(T_fields), TRUE, <<>>))
F_pdfOcr ==
    File(PDF_NAME, PDF_MIME, TRUE, <<>>, JsonInvalid,
         PdfDoc(Gives(T_garbledQuestion), TRUE,
                << Page(TRUE, Gives(O_question), Throws), Page(TRUE, Throws, Gives(T_short)) >>))
F_pdfUnreadable == File(PDF_NAME, PDF_MIME, TRUE, <<>>, JsonInvalid, PdfDoc(Throws, FALSE, <<>>))

\* A CSV of 16 columns c1 .. c16, one more than a source keeps.
F_csvWide ==
    File(CSV_NAME, CSV_MIME, TRUE,
         Join([k \in 1..16 |-> <<"c">> \o numberToString(k)], ","), JsonInvalid, NoPdf)

\* A word-processor document, a type the extraction does not recognize; and
\* PDFs no question is extracted from: one with a blank text layer, one with a
\* garbled text layer, one with a text layer of five characters, each without
\* a page OCR could read, and one uploaded without a byte.
DOCX_NAME == <<"a", ".", "d", "o", "c", "x">>
DOCX_MIME == <<"application", "/", "vnd.openxmlformats-officedocument.wordprocessingml.document">>
F_docx == File(DOCX_NAME, DOCX_MIME, TRUE, <<"xing", "ming">>, JsonInvalid, NoPdf)
F_pdfNoText == File(PDF_NAME, PDF_MIME, TRUE, <<>>, JsonInvalid, PdfDoc(Gives(T_blank), FALSE, <<>>))
F_pdfGarbled == File(PDF_NAME, PDF_MIME, TRUE, <<>>, JsonInvalid, PdfDoc(Gives(T_garbage), TRUE, <<>>))
F_pdfShort == File(PDF_NAME, PDF_MIME, TRUE, <<>>, JsonInvalid, PdfDoc(Gives(T_short), FALSE, <<>>))
F_pdfNoBytes == File(PDF_NAME, PDF_MIME, FALSE, <<>>, JsonInvalid, NoPdf)

Uploads ==
    {NoFile, F_csvNames, F_csvMixed, F_text, F_pdfQuestions, F_pdfFields, F_pdfOcr, F_pdfUnreadable,
     F_docx, F_pdfNoText, F_pdfGarbled, F_pdfShort, F_pdfNoBytes}

Reply200(d) == Resolved(200, Body(TRUE, "draft", d))

\* Server configurations: no API key; a service that is down; one that
\* answers text that is no JSON; one that is unreachable or answers a valid
\* quiz; one answering quizzes around the validation threshold; one
\* answering a form draft.
HandlerEnvs ==
    { Env(FALSE, "", 0, Replies),
      Env(TRUE, "", 0, {Resolved(500, NoBody)}),
      Env(TRUE, "", 0, {Resolved(200, Body(TRUE, "text", NoParsedDraft))}),
      Env(TRUE, "gpt-4o", 0, {Rejected, Reply200(QuizDraft(5, 4, TRUE))}),
      Env(TRUE, "gpt-4o-mini", 0, {Reply200(QuizDraft(5, 1, TRUE)), Reply200(QuizDraft(6, 4, TRUE))}),
      Env(TRUE, "", 0, {Reply200(FormDraft)}) }

HandlerFaults ==
    { {},
      { [code |-> "ECONNRESET", cause |-> "", message |-> <<"read", "ECONNRESET">>],
        [code |-> "401", cause |-> "", message |-> <<"Invalid", "Credentials">>] } }

(***************************************************************************)
(* Specifications                                                          *)
(***************************************************************************)
RetryIdle ==
    /\ retry = IdleRetry
    /\ netlog = <<>>
    /\ netFaults = {}

\* withNetworkRetry alone, called for one of the three Forms operations.
InitRetry ==
    /\ \E t \in FORMS_TASKS : retry = StartRetry(t)
    /\ netlog = <<>>
    /\ netFaults \in {NetErrors}
    /\ ExtractIdle
    /\ LlmIdle
    /\ HandlerIdle

NextRetry == RetryFnReturns \/ RetryFnThrows \/ RetrySleep

SpecRetry == InitRetry /\ [][NextRetry]_vars

ExtractStart ==
    /\ xpc = "start"
    /\ x = Locals(<<>>)
    /\ ocr = NoOcr
    /\ parsers = [text |-> "none", ocr |-> "none"]
    /\ xlog = <<>>
    /\ source = Locals(<<>>)

\* extractSourceFromUploadedFile alone, on every PDF of the model.
InitExtract ==
    /\ file \in PdfFiles
    /\ ExtractStart
    /\ RetryIdle
    /\ LlmIdle
    /\ HandlerIdle

SpecExtract == InitExtract /\ [][NextExtract]_vars

LlmPrompts == {trim(P_quiz), P_signup}

\* generateFormDraftWithLLM alone, as buildFormDraft calls it.
InitLlm ==
    /\ env \in LlmEnvs
    /\ \E p \in LlmPrompts : llm = StartLlm(p, isQuizIntent(p))
    /\ llmlog = <<>>
    /\ ExtractIdle
    /\ RetryIdle
    /\ HandlerIdle

SpecLlm == InitLlm /\ [][NextLlm]_vars

\* A request to POST /api/forms/generate, from its first line to its response.
Init ==
    /\ req \in {Request(p) : p \in Prompts}
    /\ file \in Uploads
    /\ env \in HandlerEnvs
    /\ netFaults \in HandlerFaults
    /\ pc = "extract"
    /\ draft = NoDraft
    /\ res = NoResponse
    /\ formId = ""
    /\ ExtractStart
    /\ retry = IdleRetry
    /\ netlog = <<>>
    /\ llm = IdleLlm
    /\ llmlog = <<>>

Next == NextExtract \/ NextLlm \/ NextRetry \/ NextHandler

Spec == Init /\ [][Next]_vars

\* Uploads read as text, for the draft builder.
BuildUploads == {NoFile, F_csvNames, F_csvMixed, F_text, F_csvWide}

\* Server configurations for the draft builder: no API key; a service that is
\* down; one answering a quiz of 6 questions with 4 answers; one answering a
\* quiz of 16 answered questions.
BuildEnvs ==
    { Env(FALSE, "", 0, Replies),
      Env(TRUE, "", 0, {Resolved(500, NoBody)}),
      Env(TRUE, "", 0, {Reply200(QuizDraft(6, 4, TRUE))}),
      Env(TRUE, "", 0, {Reply200(QuizDraft(16, 16, TRUE))}) }

\* buildFormDraft alone, as the handler calls it at line 1163: the upload was
\* read, the request passed the checks of lines 1125-1143.
InitBuild ==
    /\ req \in {Request(p) : p \in BuildPrompts}
    /\ file \in BuildUploads
    /\ xpc = "returned"
    /\ x = (IF file.present THEN rawTextLocals(file) ELSE Locals(<<>>))
    /\ source = (IF file.present THEN resultOf(rawTextLocals(file)) ELSE Locals(<<>>))
    /\ ocr = NoOcr
    /\ parsers = [text |-> "none", ocr |-> "none"]
    /\ xlog = <<>>
    /\ ~invalidPrompt(promptOf(req), source.questions)
    /\ env \in BuildEnvs
    /\ llm = StartLlm(llmInputPrompt(promptOf(req), sourceNameOf(file)), isQuizIntent(promptOf(req)))
    /\ llmlog = <<>>
    /\ pc = "draft"
    /\ draft = NoDraft
    /\ res = NoResponse
    /\ formId = ""
    /\ RetryIdle

NextBuild == NextLlm \/ B_Return

SpecBuild == InitBuild /\ [][NextBuild]_vars

(***************************************************************************)
(* C5                                                                      *)
(***************************************************************************)
CallsIn(log) == {k \in 1..Len(log) : log[k].e = "call"}

\* The error names one of the network conditions the claim lists (connection
\* reset, timeout, DNS failure, connection refused) in its code, its cause or
\* its message.
NamesNetworkCondition(err) ==
    \/ err.code \in RETRYABLE_CODES
    \/ err.cause \in RETRYABLE_CODES
    \/ \E k \in 1..Len(err.message) :
          err.message[k] \in RETRYABLE_CODES \cup {"econnreset", "etimedout", "enotfound"}

\* C5: withNetworkRetry invokes the wrapped operation at most 3 times; the
\* n-th invocation (n > 1) directly follows a sleep of 400 * (n - 1) ms that
\* directly follows a failure of invocation n - 1 with a retryable network
\* error; after a success nothing more is invoked and the frame has returned;
\* a non-retryable failure and the failure of the 3rd invocation are the last
\* event (no wait, no invocation) and the frame has thrown that error; any
\* other failure is followed by the sleep.
C5_RetryDiscipline ==
    /\ Cardinality(CallsIn(netlog)) <= 3
    /\ \A k \in CallsIn(netlog) :
          LET n == Cardinality({j \in CallsIn(netlog) : j <= k})
          IN  /\ netlog[k + 1].e \in {"ok", "fail"}
              /\ n > 1 =>
                    /\ netlog[k - 1].e = "sleep" /\ netlog[k - 1].ms = 400 * (n - 1)
                    /\ netlog[k - 2].e = "fail"
                    /\ isRetryableNetworkError(netlog[k - 2].err)
                    /\ NamesNetworkCondition(netlog[k - 2].err)
              /\ netlog[k + 1].e = "ok" =>
                    /\ k + 1 = Len(netlog)
                    /\ retry.st = "returned"
              /\ (netlog[k + 1].e = "fail"
                    /\ (~isRetryableNetworkError(netlog[k + 1].err) \/ n = 3)) =>
                    /\ k + 1 = Len(netlog)
                    /\ retry.st = "thrown" /\ retry.err = netlog[k + 1].err
              /\ (netlog[k + 1].e = "fail"
                    /\ isRetryableNetworkError(netlog[k + 1].err) /\ n < 3) =>
                    IF k + 1 = Len(netlog)
                      THEN retry.st = "sleep" /\ retry.waitMs = 400 * n
                      ELSE netlog[k + 2].e = "sleep"
    /\ retry.st \in {"returned", "thrown"} => netlog # <<>>

\* Witness of C5: the third invocation failed after two retryable failures
\* and waits of 400 and 800 ms, and the error was thrown to the caller.
C5_Witness ==
    /\ retry.st = "thrown"
    /\ Cardinality(CallsIn(netlog)) = 3
    /\ Len(netlog) = 8
    /\ netlog[3].ms = 400 /\ netlog[6].ms = 800

(***************************************************************************)
(* C6, C7, C8: PDF ingestion                                               *)
(***************************************************************************)
Happened(event) == event \in Range(xlog)
When(event) == CHOOSE k \in 1..Len(xlog) : xlog[k] = event

TEXT_LAYER_STEPS == {"text_ctor", "get_text", "text_destroy"}
OCR_STEPS == {"ocr_ctor", "ocr_shot", "ocr_page", "ocr_page_eng", "ocr_destroy", "ocr_done"}

TextLayer == file.pdf.getText.text
Garbled(text) ==
    LET score == getTextReadabilityScore(text)
    IN  Len(trim(text)) > 0 /\ score.num * 100 < 42 * score.den

\* The questions the text-layer attempt ended with: those of the text
\* extractor when the text layer was read, is not blank and not garbled.
TextLayerYield ==
    IF Happened("text_read") /\ Len(trim(TextLayer)) > 0 /\ ~Garbled(TextLayer)
      THEN extractQuestionsFromPdfText(TextLayer) ELSE <<>>

\* C6: OCR starts only after the text-layer attempt has ended, and only when
\* that attempt produced zero questions; while OCR is in progress the
\* text-layer attempt is over and its parser is no longer open; while the
\* text-layer attempt is in progress OCR has not started.
C6_OcrOnlyAfterEmptyTextLayer ==
    /\ Happened("ocr_start") =>
          /\ Happened("text_end") /\ When("text_end") < When("ocr_start")
          /\ TextLayerYield = <<>>
    /\ xpc \in OCR_STEPS =>
          /\ Happened("ocr_start") /\ Happened("text_end")
          /\ parsers.text # "open"
    /\ xpc \in TEXT_LAYER_STEPS =>
          /\ ~Happened("ocr_start") /\ ~Happened("text_end")
          /\ parsers.ocr = "none"
    /\ parsers.ocr # "none" => Happened("ocr_start")
    /\ (xpc \in {"finish", "returned"} /\ TextLayerYield # <<>>) => ~Happened("ocr_start")

\* Witness of C6: OCR is recognising a page after a text layer that was read
\* and gave no question.
C6_Witness ==
    /\ xpc = "ocr_page"
    /\ Happened("text_read")
    /\ parsers.text = "released" /\ parsers.ocr = "open"

\* Every page that was rendered can be recognised by one of the two models.
OcrCanReturn ==
    /\ file.pdf.shotOk
    /\ \A k \in 1..Len(renderedPages(file)) :
          LET page == renderedPages(file)[k] IN ~page.data \/ page.chi.ok \/ page.eng.ok

\* C7: when extractSourceFromUploadedFile has returned no PDF parser handle
\* is open: each handle was never created or has been destroyed; the
\* function never ends with an exception; a rejected destroy() changes
\* nothing: an OCR whose pages were all recognised still returns its text.
C7_ParsersReleased ==
    /\ xpc = "returned" => parsers.text \in {"none", "released"} /\ parsers.ocr \in {"none", "released"}
    /\ Happened("text_read") /\ xpc \notin TEXT_LAYER_STEPS => parsers.text = "released"
    /\ xpc # "thrown"
    /\ (xpc \in {"finish", "returned"} /\ parsers.ocr # "none" /\ OcrCanReturn) =>
          Happened("ocr_returned")

\* Witness of C7: the function returned after an exception during OCR, both
\* parsers destroyed, the destroy() of both rejected.
C7_Witness ==
    /\ xpc = "returned"
    /\ parsers.text = "released" /\ parsers.ocr = "released"
    /\ Happened("text_destroy_rejected") /\ Happened("ocr_destroy_rejected")
    /\ Happened("ocr_threw")

\* C8: when phase 1 is over and before any OCR attempt, an exception in the
\* text-layer attempt gives pdf_parse_failed, a blank text pdf_no_text, a
\* text with readability under 0.42 pdf_low_quality_text, each with an empty
\* question list; any other text gives no parseIssue and the questions of
\* the text extractor.  The result of a PDF with a garbled text layer holds
\* no question unless OCR supplied it.
C8_Phase1Classification ==
    /\ xpc = "ocr_gate" =>
          IF Happened("text_threw")
            THEN x.parseIssue = "pdf_parse_failed" /\ x.questions = <<>>
          ELSE IF Len(trim(TextLayer)) = 0
            THEN x.parseIssue = "pdf_no_text" /\ x.questions = <<>>
          ELSE IF Garbled(TextLayer)
            THEN x.parseIssue = "pdf_low_quality_text" /\ x.questions = <<>>
          ELSE x.parseIssue = "" /\ x.questions = extractQuestionsFromPdfText(TextLayer)
    /\ (xpc = "returned" /\ Happened("text_read") /\ Garbled(TextLayer)) =>
          \/ source.questions = <<>>
          \/ /\ source.usedOcr /\ Happened("ocr_returned")
             /\ source.questions = Take(extractQuestionsFromPdfText(ocr.text), 15)

\* Witness of C8: phase 1 ended with pdf_low_quality_text on a text layer the
\* extractor finds a question in.
C8_Witness ==
    /\ xpc = "ocr_gate"
    /\ x.parseIssue = "pdf_low_quality_text"
    /\ extractQuestionsFromPdfText(TextLayer) # <<>>

(***************************************************************************)
(* C3, C4: the model attempts of generateFormDraftWithLLM                  *)
(***************************************************************************)
COMBINED_ERROR == "All OpenAI model attempts failed"

\* The candidates without repetition, in their order.
DistinctCandidates ==
    SelectSeq([k \in 1..Len(llm.candidates) |->
                  IF \E j \in 1..(k - 1) : llm.candidates[j] = llm.candidates[k]
                    THEN "" ELSE llm.candidates[k]],
              LAMBDA m : m # "")

\* C3: the model attempts are the distinct candidates in order; an attempt
\* that is not accepted, for whatever reason (no response, status, body that
\* is no JSON, empty content, content that does not parse to a usable draft,
\* quiz validation), is followed by the attempt of the next candidate or, after
\* the last candidate, by the combined error; no other error leaves the
\* function; an accepted attempt is the last one and its draft is returned.
C3_NextCandidateAfterEveryFailure ==
    /\ \A k \in 1..Len(llmlog) : llmlog[k].model = DistinctCandidates[k]
    /\ \A k \in 1..Len(llmlog) :
          llmlog[k].outcome # "accepted" =>
             \/ k < Len(llmlog)
             \/ llm.st \in {"loop", "request", "judge"}
             \/ llm.st = "thrown" /\ llm.error = COMBINED_ERROR
    /\ llm.st = "thrown" =>
          /\ llm.error = COMBINED_ERROR
          /\ Len(llmlog) = Len(DistinctCandidates)
          /\ \A k \in 1..Len(llmlog) : llmlog[k].outcome # "accepted"
    /\ \A k \in 1..Len(llmlog) :
          llmlog[k].outcome = "accepted" =>
             /\ k = Len(llmlog)
             /\ llm.st = "returned" /\ llm.result.llmModelUsed = llmlog[k].model

\* What the validation of one attempt sees: the response is a 2xx JSON body
\* whose content is a draft with at least one normalized question.
Validated(a) ==
    /\ a.responseData.settled = "resolved"
    /\ a.responseData.status \in 200..299
    /\ a.responseData.body.json /\ a.responseData.body.content = "draft"
    /\ normalizeLlmQuestions(a.responseData.body.parsed.questions) # <<>>

QuestionsOf(a) == normalizeLlmQuestions(a.responseData.body.parsed.questions)
AnswersOf(a) == Cardinality({j \in 1..Len(QuestionsOf(a)) : QuestionsOf(a)[j].correctAnswer # <<>>})

\* Acceptance of every validated attempt of a quiz request is: quiz flag and
\* at least need(n) answers; an accepted draft is returned as normalized, a
\* rejected one is not returned.
QuizAcceptanceIs(need(_)) ==
    \A k \in 1..Len(llmlog) :
       (llm.quizRequested /\ Validated(llmlog[k])) =>
          LET a == llmlog[k]
              n == Len(QuestionsOf(a))
              passes == a.responseData.body.parsed.isQuiz /\ AnswersOf(a) >= need(n)
          IN  /\ n \in 1..15
              /\ a.outcome = IF passes THEN "accepted" ELSE "quiz_rejected"
              /\ passes => llm.result.present /\ llm.result.questions = QuestionsOf(a)
              /\ (~passes /\ k = Len(llmlog)) => ~llm.result.present

CeilOfFourFifths(n) == IF (8 * n + 9) \div 10 > 3 THEN (8 * n + 9) \div 10 ELSE 3
FloorOfFourFifths(n) == IF (8 * n) \div 10 > 3 THEN (8 * n) \div 10 ELSE 3

\* C4 as stated: under a quiz request a draft with n normalized questions is
\* accepted iff its quiz flag is true and at least max(3, ceil(0.8 n)) of its
\* questions carry an answer; otherwise it is rejected whole.
C4_AcceptedIffCeilThreshold == QuizAcceptanceIs(CeilOfFourFifths)

\* C4 amended: the threshold is max(3, floor(0.8 n)).
C4_AcceptedIffFloorThreshold == QuizAcceptanceIs(FloorOfFourFifths)

\* Witness of C4: under a quiz request a draft with 1 answer of 5 was
\* rejected and a later one with 4 answers of 6 accepted.
C4_Witness ==
    /\ llm.quizRequested
    /\ \E j, k \in 1..Len(llmlog) :
          /\ j < k
          /\ Validated(llmlog[j]) /\ Len(QuestionsOf(llmlog[j])) = 5 /\ AnswersOf(llmlog[j]) = 1
          /\ llmlog[j].outcome = "quiz_rejected"
          /\ Validated(llmlog[k]) /\ Len(QuestionsOf(llmlog[k])) = 6 /\ AnswersOf(llmlog[k]) = 4
          /\ llmlog[k].outcome = "accepted"

(***************************************************************************)
(* C1, C2, C9, C10: the draft of a request                                 *)
(***************************************************************************)
DraftBuilt == draft # NoDraft
LlmDraftObtained == \E k \in 1..Len(llmlog) : llmlog[k].outcome = "accepted"
LlmWasCalled == llm.st # "idle"

\* The questions buildFormDraft keeps of an accepted draft.
TunedQuestions(questions) ==
    IF isQuizIntent(promptOf(req))
      THEN Take(questions, parseDesiredQuestionCount(promptOf(req)))
      ELSE questions

\* C1: buildFormDraft calls generateFormDraftWithLLM before it builds
\* anything; its draft has generationMode 'llm' only when that call returned
\* a validated draft, whose questions it keeps; when the call returned null
\* (no API key) or ended with an exception of any kind, buildFormDraft still
\* returns, and its draft is the one of the rule-based builder.
C1_LlmFirstRuleFallback ==
    /\ pc = "draft" => LlmWasCalled /\ ~DraftBuilt
    /\ DraftBuilt =>
          /\ llm.st \in {"returned", "thrown"}
          /\ draft.generationMode \in {"llm", "rule"}
          /\ draft.generationMode = "llm" =>
                /\ LlmDraftObtained
                /\ llm.st = "returned" /\ llm.result.present
                /\ draft.questions = TunedQuestions(QuestionsOf(llmlog[Len(llmlog)]))
          /\ (~env.apiKey \/ llm.st = "thrown" \/ ~LlmDraftObtained) =>
                /\ draft.generationMode = "rule"
                /\ draft.questions = parsePromptToQuestions(promptOf(req), source.questions)

\* Witness of C1: a rule draft was built after generateFormDraftWithLLM ended
\* with an exception that is not the combined error.
C1_Witness ==
    /\ DraftBuilt /\ draft.generationMode = "rule"
    /\ llm.st = "thrown" /\ llm.error # COMBINED_ERROR

QuizOfUnknownTopic ==
    isQuizIntent(promptOf(req)) /\ detectQuizTopic(promptOf(req)) = "unknown"

NoFormsCall == netlog = <<>> /\ retry = IdleRetry

\* The upload is a PDF no question was extracted from (lines 1125-1136).
EmptyPdf == file.present /\ source.fileType = <<"p", "d", "f">> /\ source.questions = <<>>

\* C2 as stated: a request with quiz intent and unknown topic for which no
\* validated LLM draft is obtained ends with quiz_llm_required, and makes no
\* call of forms.create, forms.batchUpdate or forms.get.
C2_QuizWithoutLlmFails ==
    (QuizOfUnknownTopic /\ ~LlmDraftObtained) =>
       /\ NoFormsCall
       /\ pc = "done" => res.error = "quiz_llm_required"

\* C2 amended: the same for a request that is not rejected before the draft
\* stage for an uploaded PDF without extractable questions; that request ends
\* with pdf_parse_empty, equally without a call of the Forms API.
C2_QuizWithoutLlmFailsAfterPreChecks ==
    (QuizOfUnknownTopic /\ ~LlmDraftObtained) =>
       /\ NoFormsCall
       /\ pc = "done" =>
             res.error = IF EmptyPdf THEN "pdf_parse_empty" ELSE "quiz_llm_required"
       /\ pc = "done" => res.status = IF EmptyPdf THEN 400 ELSE 503

\* Witness of C2: a quiz request with questions from an upload ended with
\* quiz_llm_required after every model attempt failed.
C2_Witness ==
    /\ pc = "done" /\ res.error = "quiz_llm_required"
    /\ QuizOfUnknownTopic
    /\ source.questions # <<>>
    /\ llm.st = "thrown"
    /\ draft.generationMode = "rule" /\ draft.questions # <<>>

\* C9: no two questions of a draft buildFormDraft returned share a non-empty key.
C9_UniqueKeys ==
    DraftBuilt =>
       \A i, j \in 1..Len(draft.questions) :
          (i < j /\ draft.questions[i].key # <<>>) =>
             draft.questions[i].key # draft.questions[j].key

\* C10: in a draft buildFormDraft returned, a question that is not a choice
\* has no options, an empty correctAnswer and 0 points; the correctAnswer of
\* a choice is empty or one of its options.
C10_QuestionSchema ==
    DraftBuilt =>
       \A k \in 1..Len(draft.questions) :
          LET q == draft.questions[k]
          IN  /\ q.type \in {"text", "paragraph", "choice"}
              /\ q.type # "choice" => q.options = <<>> /\ q.correctAnswer = <<>> /\ q.points = 0
              /\ q.type = "choice" =>
                    \/ q.correctAnswer = <<>>
                    \/ \E o \in 1..Len(q.options) : q.options[o] = q.correctAnswer

\* Witness of C10: a draft of the LLM with a choice that kept its answer, a
\* choice that lost an answer that was no option, and a choice turned to text.
C10_Witness ==
    /\ DraftBuilt /\ draft.generationMode = "llm"
    /\ \E i, j, k \in 1..Len(draft.questions) :
          /\ draft.questions[i].type = "choice" /\ draft.questions[i].correctAnswer # <<>>
          /\ draft.questions[j].type = "choice" /\ draft.questions[j].correctAnswer = <<>>
          /\ draft.questions[k].type = "text" /\ draft.questions[k].title = <<"d">>

(***************************************************************************)
(* C11, C12, C15, C16: the questions of a draft                            *)
(***************************************************************************)
RuleDraftBuilt == DraftBuilt /\ draft.generationMode = "rule"

\* C11: a rule-mode draft buildFormDraft built with a non-empty list of
\* source questions holds exactly that list, same questions in the same
\* order, whatever the prompt (empty, quiz, registration, survey): nothing of
\* the quiz banks, the field library or the augmentations is added.
C11_SourceQuestionsVerbatim ==
    (RuleDraftBuilt /\ source.questions # <<>>) =>
       /\ draft.questions = source.questions
       /\ draft.questions = Take(questionsFromFields(x.fields), 15)

\* Witness of C11: a rule draft of the two questions of a CSV under a prompt
\* that names the phone, a registration and a survey.
C11_Witness ==
    /\ RuleDraftBuilt
    /\ req.prompt = P_signupPhone
    /\ Len(source.questions) = 2 /\ draft.questions = source.questions

\* The rule-based generic path: a rule draft without source questions for a
\* prompt without quiz intent.
GenericRulePath == RuleDraftBuilt /\ source.questions = <<>> /\ ~isQuizIntent(promptOf(req))

\* /bao ming|yu yue|shen qing|deng ji/ matches the prompt.
RegistrationPrompt == IncludesAny(promptOf(req), FORM_WORDS)

CANONICAL_NAME == Question(<<"name">>, <<"title:name">>, "text", TRUE, <<>>, <<>>, 0)
CANONICAL_EMAIL == Question(<<"email">>, <<"title:email">>, "text", TRUE, <<>>, <<>>, 0)
REQUIRED_PHONE == Question(<<"phone">>, <<"title:phone">>, "text", TRUE, <<>>, <<>>, 0)

\* C12: on the generic rule path, the questions for a prompt that triggers
\* the registration augmentation hold the canonical name and email questions
\* and a phone question that is required, whatever else the prompt mentions;
\* for the prompt "bao ming biao" they are exactly name, email, phone(required).
C12_RegistrationForcesPhone ==
    (GenericRulePath /\ RegistrationPrompt) =>
       /\ CANONICAL_NAME \in Range(draft.questions)
       /\ CANONICAL_EMAIL \in Range(draft.questions)
       /\ \E k \in 1..Len(draft.questions) :
              draft.questions[k].key = <<"phone">> /\ draft.questions[k].required
       /\ promptOf(req) = P_signupForm =>
              draft.questions = <<CANONICAL_NAME, CANONICAL_EMAIL, REQUIRED_PHONE>>

(***************************************************************************)
(* C13, C14: requests whose upload gives no question                       *)
(***************************************************************************)
EmptyPrompt == trim(req.prompt) = <<>>

\* The upload was read and no question was extracted from it.
UploadWithoutQuestions == file.present /\ xpc = "returned" /\ source.questions = <<>>

PARSE_ISSUES == {"pdf_no_text", "pdf_low_quality_text", "pdf_parse_failed"}

\* The request goes on to draft generation by inference from the prompt
\* alone: it is not rejected for its input, buildFormDraft is called with the
\* prompt, and a rule draft holds the questions inferred from the prompt.
ProceedsFromPromptAlone ==
    /\ res.error \notin {"pdf_parse_empty", "invalid_prompt"}
    /\ pc # "extract" => LlmWasCalled /\ llm.prompt = trim(req.prompt)
    /\ pc = "done" => DraftBuilt
    /\ RuleDraftBuilt => draft.questions = parsePromptToQuestions(trim(req.prompt), <<>>)

\* C13 as stated: a request with a non-empty prompt and an upload no question
\* was extracted from (a PDF with pdf_no_text, pdf_low_quality_text or
\* pdf_parse_failed, or a file of an unrecognized type) is not rejected
\* because of the document: it proceeds by inference from the prompt alone.
C13_EmptyUploadNonFatal ==
    (~EmptyPrompt /\ UploadWithoutQuestions) => ProceedsFromPromptAlone

\* C13 amended: that holds for an upload that is not a PDF; a PDF no question
\* was extracted from ends the request with 400 pdf_parse_empty whatever the
\* prompt, before buildFormDraft, the LLM or the Forms API is called.
C13_EmptyUploadNonFatalUnlessPdf ==
    (~EmptyPrompt /\ UploadWithoutQuestions) =>
       IF source.fileType = <<"p", "d", "f">>
         THEN /\ pc \in {"extract", "done"}
              /\ pc = "done" => res = Response(400, "pdf_parse_empty")
              /\ ~LlmWasCalled /\ ~DraftBuilt /\ NoFormsCall
         ELSE ProceedsFromPromptAlone

\* Witness of C13: a request with a prompt and a document of an unrecognized
\* type ended with a form built from the questions of the prompt.
C13_Witness ==
    /\ file = F_docx /\ source.fileType = <<"d", "o", "c", "x">>
    /\ pc = "done" /\ res.status = 200
    /\ RuleDraftBuilt /\ draft.questions = parsePromptToQuestions(P_signup, <<>>)

\* The upload is a PDF (by name or MIME type) with at least one byte.
PdfUploaded == file.present /\ file.hasBytes /\ isPdfFile(file)

\* C14: a request with an empty prompt and no question from a file is
\* rejected with 400 invalid_prompt, or 400 pdf_parse_empty when a PDF was
\* uploaded, straight after the extraction: the LLM is not called, no draft
\* is built, no Forms call is made and nothing is retried.
C14_EmptyInputRejected ==
    (EmptyPrompt /\ xpc = "returned" /\ source.questions = <<>>) =>
       /\ pc \in {"extract", "done"}
       /\ pc = "done" =>
             res = Response(400, IF PdfUploaded THEN "pdf_parse_empty" ELSE "invalid_prompt")
       /\ ~LlmWasCalled /\ llmlog = <<>>
       /\ ~DraftBuilt
       /\ NoFormsCall

\* Witness of C14: a request with a blank prompt and a document of an
\* unrecognized type was answered invalid_prompt.
C14_Witness ==
    /\ EmptyPrompt /\ req.prompt # <<>>
    /\ file = F_docx
    /\ pc = "done" /\ res = Response(400, "invalid_prompt")

(***************************************************************************)
(* C15, C16: quiz banks and the size of a draft                            *)
(***************************************************************************)
\* The rule-based quiz path: a rule draft without source questions for a
\* prompt with quiz intent.
QuizRulePath == RuleDraftBuilt /\ source.questions = <<>> /\ isQuizIntent(promptOf(req))

DesiredCount == parseDesiredQuestionCount(promptOf(req))
Topic == detectQuizTopic(promptOf(req))

\* The questions of the draft are the first ones of `drawn`, in its order,
\* cut to the desired count, each a required choice with the options of its entry.
DrawnFrom(drawn) ==
    /\ Len(draft.questions) = Min(DesiredCount, Len(drawn))
    /\ \A k \in 1..Len(draft.questions) :
          /\ draft.questions[k].key = drawn[k].key
          /\ draft.questions[k].title = drawn[k].title
          /\ draft.questions[k].options = drawn[k].options
          /\ draft.questions[k].type = "choice"
          /\ draft.questions[k].required

Graded(q) ==
    /\ q.correctAnswer # <<>>
    /\ q.correctAnswer \in Range(q.options)
    /\ q.points = 1

CHINA_KEYS ==
    << <<"china_capital">>, <<"china_national_day">>, <<"china_longest_river">>,
       <<"china_highest_peak">>, <<"china_currency">>, <<"china_heritage">>,
       <<"china_regions">>, <<"china_festival">> >>

ChinaScenario ==
    promptOf(req) = P_chinaQuiz8 =>
       /\ Len(draft.questions) = 8
       /\ \A k \in 1..8 : draft.questions[k].key = CHINA_KEYS[k] /\ Graded(draft.questions[k])

\* C15 as stated: on the rule-based quiz path the questions are drawn in bank
\* order from the bank of the topic, from the generic bank when the topic is
\* unknown or once the bank of the topic is exhausted, cut to the desired count;
\* every question is a required choice with its stored answer, which is not
\* empty and one of its options, and 1 point; the prompt asking for 8
\* questions on China gives china_capital .. china_festival.
C15_QuizBankGraded ==
    QuizRulePath =>
       /\ DrawnFrom(IF Topic = "unknown" THEN QUIZ_BANK_GENERIC
                    ELSE QuizBank(Topic) \o QUIZ_BANK_GENERIC)
       /\ \A k \in 1..Len(draft.questions) : Graded(draft.questions[k])
       /\ ChinaScenario

\* C15 amended: the questions are the first ones of one bank, that of the
\* topic or the generic bank when the topic is unknown, at most the desired
\* count and at most the whole bank (nothing is added once it is exhausted);
\* a question of a topic bank carries its stored answer and 1 point, a
\* question of the generic bank has no answer and 0 points.
C15_QuizBankOfTopic ==
    QuizRulePath =>
       /\ DrawnFrom(CASE Topic = "openai" -> QUIZ_BANK_OPENAI
                      [] Topic = "china" -> QUIZ_BANK_CHINA
                      [] OTHER -> QUIZ_BANK_GENERIC)
       /\ \A k \in 1..Len(draft.questions) :
              IF Topic = "unknown"
                THEN draft.questions[k].correctAnswer = <<>> /\ draft.questions[k].points = 0
                ELSE Graded(draft.questions[k])
       /\ Len(draft.questions) <= 8
       /\ ChinaScenario

\* Witness of C15: the rule draft for the prompt asking for 8 questions on China.
C15_Witness ==
    /\ QuizRulePath
    /\ promptOf(req) = P_chinaQuiz8
    /\ Len(draft.questions) = 8
    /\ draft.questions[8].key = <<"china_festival">>

\* C16 as stated: a draft buildFormDraft returned has at most 15 questions,
\* and at most the desired count when the prompt has quiz intent, on every
\* path (LLM draft, quiz bank, source questions).
C16_AtMostDesiredCount ==
    DraftBuilt =>
       /\ Len(draft.questions) <= 15
       /\ isQuizIntent(promptOf(req)) => Len(draft.questions) <= DesiredCount

\* C16 amended: at most 15 questions on every path; under quiz intent at most
\* the desired count for an LLM draft and for a quiz-bank draft; a rule draft
\* of source questions keeps all of them, whatever the desired count.
C16_AtMostDesiredCountUnlessSource ==
    DraftBuilt =>
       /\ Len(draft.questions) <= 15
       /\ (isQuizIntent(promptOf(req))
             /\ (draft.generationMode = "llm" \/ source.questions = <<>>)) =>
                Len(draft.questions) <= DesiredCount
       /\ (draft.generationMode = "rule" /\ source.questions # <<>>) =>
                Len(draft.questions) = Len(source.questions)

\* Witness of C16: under a prompt asking for a quiz of 5 questions the LLM
\* answered 16 questions, 15 were kept by the normalisation and 5 by buildFormDraft.
C16_Witness ==
    /\ DraftBuilt /\ draft.generationMode = "llm"
    /\ DesiredCount = 5
    /\ Len(llm.responseData.body.parsed.questions.items) = 16
    /\ Len(llm.result.questions) = 15
    /\ Len(draft.questions) = 5

(***************************************************************************)
(* C17: the OCR fallback                                                   *)
(***************************************************************************)
\* The locals as phase 1 of the PDF branch left them (line 706).
Phase1 ==
    IF Happened("text_read") THEN textLayerRead(Locals(<<"p", "d", "f">>), TextLayer)
    ELSE parseFailed(Locals(<<"p", "d", "f">>))

\* The OCR fallback is over: it was entered and control is past line 725.
OcrOver == Happened("ocr_start") /\ xpc \in {"finish", "returned"}

\* extractTextWithPdfOcr returned a text with readability >= 0.35 the text
\* extractor finds a question in.
OcrAccepted ==
    /\ Happened("ocr_returned")
    /\ ocr.text # <<>>
    /\ getTextReadabilityScore(ocr.text).num * 100 >= 35 * getTextReadabilityScore(ocr.text).den
    /\ extractQuestionsFromPdfText(ocr.text) # <<>>

\* C17: after phase 1 left zero questions, an accepted OCR text gives its
\* questions with parseIssue '', usedOcr true, extractMethod pdf_ocr and
\* textLength, readabilityScore and sourceText of the OCR text; in every other
\* case (OCR threw, returned nothing, readability under 0.35, no question)
\* questions, parseIssue, usedOcr, textLength, readabilityScore, sourceText
\* and extractMethod are as phase 1 set them; the result returned carries them.
C17_OcrFrame ==
    /\ OcrOver =>
          /\ Phase1.questions = <<>>
          /\ IF OcrAccepted
                THEN /\ x.questions = extractQuestionsFromPdfText(ocr.text)
                     /\ x.parseIssue = ""
                     /\ x.usedOcr
                     /\ x.extractMethod = "pdf_ocr"
                     /\ x.textLength = Len(ocr.text)
                     /\ x.readabilityScore = getTextReadabilityScore(ocr.text)
                     /\ x.sourceText = ocr.text
                ELSE /\ x.questions = <<>>
                     /\ x.parseIssue = Phase1.parseIssue
                     /\ ~x.usedOcr
                     /\ x.extractMethod = Phase1.extractMethod
                     /\ x.textLength = Phase1.textLength
                     /\ x.readabilityScore = Phase1.readabilityScore
                     /\ x.sourceText = Phase1.sourceText
    /\ (OcrOver /\ xpc = "returned") =>
          /\ source.questions = x.questions
          /\ source.parseIssue = x.parseIssue /\ source.usedOcr = x.usedOcr
          /\ source.extractMethod = x.extractMethod /\ source.textLength = x.textLength
          /\ source.readabilityScore = x.readabilityScore /\ source.sourceText = x.sourceText

\* Witness of C17: OCR returned a text that is readable but too short for a
\* question after a garbled text layer: the result keeps pdf_low_quality_text.
C17_Witness ==
    /\ xpc = "returned" /\ Happened("ocr_returned")
    /\ ocr.text = T_short
    /\ source.parseIssue = "pdf_low_quality_text" /\ ~source.usedOcr
    /\ source.extractMethod = "pdf_text" /\ source.sourceText = TextLayer

(***************************************************************************)
(* C18: choices of an LLM draft                                            *)
(***************************************************************************)
\* The questions as the model wrote them in the draft that was returned.
RawQuestions == llmlog[Len(llmlog)].responseData.body.parsed.questions.items

\* The place of raw question k in the returned list: questions with a blank
\* title are left out.
PlaceOf(k) == Cardinality({j \in 1..k : trim(RawQuestions[j].title) # <<>>})

\* The options that survive: trimmed, not empty, the first 8.
SurvivingOptions(q) ==
    IF q.options.isArray
      THEN Take(SelectSeq(MapSeq(q.options.items, trim), LAMBDA o : o # <<>>), 8)
      ELSE <<>>

DeclaredAnswer(q) == trim(q.correctAnswer)
AnswerUnlisted(q) == DeclaredAnswer(q) # <<>> /\ DeclaredAnswer(q) \notin Range(SurvivingOptions(q))

\* A returned question that has lost its choice semantics.
TurnedToText(n) == n.type = "text" /\ n.options = <<>> /\ n.correctAnswer = <<>> /\ n.points = 0

\* Every raw question declared 'choice' that is in the returned draft
\* satisfies Rule(raw question, returned question).
ChoicesNormalizedBy(Rule(_, _)) ==
    llm.result.present =>
       \A k \in 1..Len(RawQuestions) :
          (RawQuestions[k].type = "choice" /\ trim(RawQuestions[k].title) # <<>> /\ PlaceOf(k) <= 15) =>
             Rule(RawQuestions[k], llm.result.questions[PlaceOf(k)])

ChoiceRuleAsStated(q, n) ==
    IF Len(SurvivingOptions(q)) < 2 \/ AnswerUnlisted(q) THEN TurnedToText(n)
    ELSE n.type = "choice" /\ Len(n.options) <= 8 /\ n.options = SurvivingOptions(q)

ChoiceRuleAmended(q, n) ==
    IF Len(SurvivingOptions(q)) < 2 THEN TurnedToText(n)
    ELSE /\ n.type = "choice" /\ Len(n.options) <= 8 /\ n.options = SurvivingOptions(q)
         /\ IF AnswerUnlisted(q) THEN n.correctAnswer = <<>> /\ n.points = 0
            ELSE n.correctAnswer = DeclaredAnswer(q)

\* C18 as stated: a raw question declared 'choice' comes out as 'text' with
\* an empty correctAnswer and 0 points when fewer than 2 valid options
\* survive, and also when its non-empty answer is not among the surviving
\* options; otherwise it stays 'choice' with at most 8 options.
C18_ChoiceDroppedWhenAnswerUnlisted == ChoicesNormalizedBy(ChoiceRuleAsStated)

\* C18 amended: only fewer than 2 surviving options turn the question to
\* 'text'; with at least 2, an answer that is not among them is cleared
\* together with the points and the question stays 'choice' with its options.
C18_ChoiceKeptWhenAnswerUnlisted == ChoicesNormalizedBy(ChoiceRuleAmended)

\* Witness of C18: a returned draft whose first question kept 8 of 9
\* options and lost its answer, the ninth; whose second one became a text;
\* whose third and fourth stayed choices, with and without an answer.
C18_Witness ==
    /\ llm.result.present /\ Len(llm.result.questions) = 4
    /\ Len(RawQuestions[1].options.items) = 9
    /\ llm.result.questions[1].type = "choice" /\ Len(llm.result.questions[1].options) = 8
    /\ llm.result.questions[1].correctAnswer = <<>>
    /\ TurnedToText(llm.result.questions[2])
    /\ llm.result.questions[3].correctAnswer = <<"y">>
    /\ llm.result.questions[4].type = "choice" /\ llm.result.questions[4].correctAnswer = <<>>

(***************************************************************************)
(* C19: the strategies of the text question extractor                      *)
(***************************************************************************)
\* The lines the line strategies work on.
ReadableLines(text) ==
    SelectSeq(nonBlank(MapSeq(split(normalizePdfText(text), {"\n"}), trim)),
              LAMBDA line : getTextReadabilityScore(line).num * 2 >= getTextReadabilityScore(line).den)

LIBRARY_KEYS == {FIELD_LIBRARY[k].key : k \in 1..Len(FIELD_LIBRARY)}

\* Every key of qs is the prefix followed by the place of the question.
KeysNumbered(qs, prefix) == \A k \in 1..Len(qs) : qs[k].key = <<prefix>> \o numberToString(k)

\* Every key of qs is derived from a field name.
KeysOfFields(qs) ==
    \A k \in 1..Len(qs) : qs[k].key \in LIBRARY_KEYS \/ (qs[k].key # <<>> /\ qs[k].key[1] = "field_")

\* qs is the output of one strategy on text, the first that has a usable result.
OneStrategy(text, qs) ==
    LET normalized == normalizePdfText(text)
        interrogative == Len(explicitQuestionsOf(ReadableLines(text)))
        items == Len(listedLinesOf(ReadableLines(text)))
        sentences == Len(sentenceCandidatesOf(normalized))
    IN  IF Len(normalized) < 20 THEN qs = <<>>
        ELSE IF interrogative > 0
          THEN KeysNumbered(qs, "pdf_q_") /\ Len(qs) = interrogative /\ Len(qs) <= 15
        ELSE IF items >= 3
          THEN KeysNumbered(qs, "pdf_list_") /\ Len(qs) = items /\ Len(qs) <= 12
        ELSE IF sentences > 0
          THEN KeysNumbered(qs, "pdf_sentence_") /\ Len(qs) = sentences /\ Len(qs) <= 8
        ELSE KeysOfFields(qs) /\ Len(qs) <= 15

\* The text extractor ran on the text layer and its result was kept (line 690).
TextLayerExtracted == xpc = "ocr_gate" /\ Happened("text_read") /\ x.parseIssue = ""

\* C19: the questions the text extractor returned are the output of exactly
\* one strategy, the first of interrogative lines, list items (at least 3),
\* sentences, bare field names with a usable result: their keys are pdf_q_N,
\* pdf_list_N, pdf_sentence_N or field-derived throughout, and they are at
\* most 15, 12, 8 and 15; there is none when the normalized text has fewer
\* than 20 characters.
C19_OneStrategy ==
    /\ TextLayerExtracted => OneStrategy(TextLayer, x.questions)
    /\ (xpc = "finish" /\ x.usedOcr) => OneStrategy(ocr.text, x.questions)

\* Witness of C19: the text layer holds interrogative lines and three list
\* items, and the interrogative lines alone were returned.
C19_Witness ==
    /\ TextLayerExtracted
    /\ TextLayer = T_questions
    /\ Len(listedLinesOf(ReadableLines(TextLayer))) = 3
    /\ Len(x.questions) = 2 /\ x.questions[2].key = <<"pdf_q_", "2">>

\* ---------------------------------------------------------------------------
\* C20: the egress paths of one model attempt
\* ---------------------------------------------------------------------------

\* The request did not deliver an HTTP response: the promise was rejected
\* (error or timeout, lines 972-977) or resolved with no status code
\* (resp.statusCode || 0, line 967), which does not end the loop (line 984).
FailedToDeliver(r) == r.settled = "rejected" \/ r.status = 0

\* The paths the environment offers: proxies only, then the direct path.
ProxiesThenDirect(paths) ==
    /\ paths[Len(paths)] = DIRECT
    /\ \A k \in 1..(Len(paths) - 1) : paths[k] # DIRECT
    /\ \A j, k \in 1..Len(paths) : paths[j] = paths[k] => j = k

\* The model of the requests in llm.requests was abandoned with no
\* responseData (line 990).
GivenUpForNoResponse ==
    /\ llm.st = "loop" /\ llm.requests # <<>> /\ llmlog # <<>>
    /\ llmlog[Len(llmlog)].outcome = "no_response"

\* C20: within one model attempt the k-th request goes by the k-th egress
\* path, the proxy candidates first and the direct path last, one request per
\* path; a request follows another only when every earlier one failed to
\* deliver an HTTP response; and the model is abandoned for lack of a response
\* only when the direct path was tried as well and every request was rejected.
C20_EgressPathsInOrder ==
    /\ ProxiesThenDirect(egressList(env))
    /\ Len(llm.requests) <= Len(egressList(env))
    /\ \A k \in 1..Len(llm.requests) :
          /\ llm.requests[k].proxyUrl = egressList(env)[k]
          /\ \A j \in 1..(k - 1) : FailedToDeliver(llm.requests[j])
    /\ llm.st = "request" => llm.path = Len(llm.requests) + 1
    /\ GivenUpForNoResponse =>
          /\ Len(llm.requests) = Len(egressList(env))
          /\ llm.requests[Len(llm.requests)].proxyUrl = DIRECT
          /\ \A k \in 1..Len(llm.requests) : llm.requests[k].settled = "rejected"

\* Witness of C20: with a proxy configured in the environment, both proxies
\* failed to deliver and the direct path answered 200.
C20_Witness ==
    /\ llm.st = "judge" /\ env.envProxies = 1
    /\ Len(llm.requests) = 3
    /\ llm.requests[1] = EgressRequest("OPENAI_PROXY", Rejected)
    /\ llm.requests[2].proxyUrl = LOCAL_PROXY /\ FailedToDeliver(llm.requests[2])
    /\ llm.requests[3].proxyUrl = DIRECT /\ llm.requests[3].status = 200
    /\ llm.responseData.status = 200

\* ---------------------------------------------------------------------------
\* C21: create, batchUpdate, get
\* ---------------------------------------------------------------------------

\* The place of a Forms operation in the handler: lines 1172, 1215, 1225.
FormsRank(task) ==
    CASE task = "forms.create" -> 1
      [] task = "forms.batchUpdate" -> 2
      [] task = "forms.get" -> 3
      [] OTHER -> 0

OksIn(log) == {k \in 1..Len(log) : log[k].e = "ok"}

\* The k-th event is a failure withNetworkRetry does not retry: the error is
\* not retryable, or the call was the third of its operation.
FinalFailure(k) ==
    /\ netlog[k].e = "fail"
    /\ \/ ~isRetryableNetworkError(netlog[k].err)
       \/ Cardinality({j \in CallsIn(netlog) : j < k /\ netlog[j].task = netlog[k].task}) = 3

\* forms.create resolved with a response that has no formId (line 1187).
CreatedWithoutFormId(k) ==
    netlog[k].e = "ok" /\ netlog[k].task = "forms.create" /\ netlog[k].formId = ""

ErrorResponse ==
    res.error = "form_generation_failed" /\ res.status \in {HTTP_UNAUTHORIZED, HTTP_SERVER_ERROR}

\* C21: the handler calls the Forms API in the order create, batchUpdate,
\* get; a call of batchUpdate or get comes after the success of the step
\* before it, with nothing in between but earlier tries of the same step; a
\* step that succeeded is not called again; batchUpdate and get are called
\* only with the non-empty formId forms.create returned; after a failure that
\* is not retried, and after a create response without formId, no call
\* follows and the response is form_generation_failed with 401 or 500.
C21_FormsCallsInOrder ==
    /\ \A k \in 1..Len(netlog) : netlog[k].task \in FORMS_TASKS
    /\ \A j, k \in CallsIn(netlog) :
          j < k => FormsRank(netlog[j].task) <= FormsRank(netlog[k].task)
    /\ \A k \in CallsIn(netlog) :
          IF netlog[k].task = "forms.create"
            THEN netlog[k].formId = ""
            ELSE /\ \E j \in OksIn(netlog) :
                       /\ j < k
                       /\ FormsRank(netlog[j].task) = FormsRank(netlog[k].task) - 1
                       /\ \A i \in (j + 1)..(k - 1) : netlog[i].task = netlog[k].task
                 /\ netlog[k].formId # ""
                 /\ netlog[k].formId = formId
                 /\ \E j \in OksIn(netlog) :
                       /\ j < k /\ netlog[j].task = "forms.create"
                       /\ netlog[j].formId = netlog[k].formId
    /\ \A k \in OksIn(netlog) :
          \A j \in (k + 1)..Len(netlog) : netlog[j].task # netlog[k].task
    /\ \A k \in 1..Len(netlog) :
          (FinalFailure(k) \/ CreatedWithoutFormId(k)) =>
             /\ k = Len(netlog)
             /\ pc \in FORMS_TASKS \cup {"done"}
             /\ pc = "done" => ErrorResponse
    /\ (pc = "done" /\ res.status = HTTP_OK) =>
          {netlog[k].task : k \in OksIn(netlog)} = FORMS_TASKS

\* Witness of C21: forms.create failed once with a retryable error and then
\* returned form_B; forms.batchUpdate and forms.get were called on form_B and
\* the request was answered 200.
C21_Witness ==
    /\ pc = "done" /\ res.status = HTTP_OK /\ formId = "form_B"
    /\ Len(netlog) = 9
    /\ netlog[2].e = "fail" /\ netlog[2].task = "forms.create"
    /\ netlog[5].e = "ok" /\ netlog[5].formId = "form_B"
    /\ netlog[6].task = "forms.batchUpdate" /\ netlog[6].formId = "form_B"
    /\ netlog[8].task = "forms.get" /\ netlog[8].formId = "form_B"

\* A step failed after its retries and the request ended with an error.
C21_FailureEnds ==
    /\ pc = "done" /\ ErrorResponse
    /\ netlog # <<>> /\ FinalFailure(Len(netlog))
    /\ netlog[Len(netlog)].task = "forms.batchUpdate"
    /\ Cardinality(CallsIn(netlog)) = 4

\* ---------------------------------------------------------------------------
\* C22: the generic quiz bank and the Forms API
\* ---------------------------------------------------------------------------

GENERIC_KEYS == {QUIZ_BANK_GENERIC[k].key : k \in 1..Len(QUIZ_BANK_GENERIC)}

\* The questions of the draft that come from the generic bank.
GenericIn(d) == {k \in 1..Len(d.questions) : d.questions[k].key \in GENERIC_KEYS}

\* The questions the createItem requests of forms.batchUpdate are made of
\* (draft.questions.map(toCreateItemRequest), line 1212), once it was called.
SubmittedQuestions ==
    IF \E k \in CallsIn(netlog) : netlog[k].task = "forms.batchUpdate"
      THEN draft.questions
      ELSE <<>>

\* C22: no question of the generic quiz bank is among the questions sent to
\* the Forms API; a draft holds questions of the generic bank only if it is a
\* rule draft for a prompt with quiz intent and unknown topic and no source
\* question; such a draft has needLlmForQuiz, no Forms operation is called
\* for it, and its request ends with 503 quiz_llm_required.
C22_GenericBankNeverSubmitted ==
    /\ \A k \in 1..Len(SubmittedQuestions) : SubmittedQuestions[k].key \notin GENERIC_KEYS
    /\ (DraftBuilt /\ GenericIn(draft) # {}) =>
          /\ draft.generationMode = "rule"
          /\ QuizOfUnknownTopic
          /\ source.questions = <<>>
          /\ draft.questions = generateQuizQuestions(promptOf(req))
    /\ (DraftBuilt /\ draft.generationMode = "rule" /\ QuizOfUnknownTopic) =>
          /\ draft.needLlmForQuiz
          /\ NoFormsCall
          /\ pc \in {"gate", "done"}
          /\ pc = "done" => res = Response(HTTP_UNAVAILABLE, "quiz_llm_required")

\* Witness of C22: a quiz on an unknown topic without upload got the three
\* questions of the generic bank as its rule draft and was answered 503
\* before any Forms operation.
C22_Witness ==
    /\ pc = "done" /\ res.error = "quiz_llm_required"
    /\ ~file.present
    /\ draft.generationMode = "rule" /\ draft.needLlmForQuiz
    /\ Len(draft.questions) = 3 /\ GenericIn(draft) = {1, 2, 3}
    /\ draft.questions[1].correctAnswer = <<>>
    /\ NoFormsCall

====
